---- MODULE Spec2Model ----
(***************************************************************************)
(* A model of src/rmux/session.rs: the process-wide session registry       *)
(* (CHANNEL_SESSIONS), the shared MuxSessionState of each session, and the *)
(* three tasks of process_rmux_session (handle_recv, process_event,        *)
(* handle_send) with the two bounded mpsc queues between them.             *)
(*                                                                         *)
(* A u32 that can wrap or saturate is kept at its width as a pair          *)
(* <<hi, lo>> of 16-bit limbs (value = hi * 65536 + lo).                   *)
(***************************************************************************)
EXTENDS Integers, Sequences, FiniteSets, TLC

----------------------------------------------------------------------------
\* Bounds of the model (not program constants).

\* Sessions are named by their tunnel id, 1..NSessions.
NSessions == 2
\* Concurrent callers of create_stream.
NCallers == 2
\* Calls of create_stream over a run.
MaxCreate == 2
FewCreate == 1
\* Seconds between two routine sweeps.
SweepPeriod == 59
\* Routine sweeps over a run, where one is enough and where two are needed.
FewSweeps == 1
MaxSweeps == 2
\* Clock advances over a run.
MaxTicks == 1
\* Events the Reader takes from the wire over a run.
FewRemote == 1
MaxRemote == 2
\* Calls of report_update_window over a run.
FewReports == 1
MaxReports == 2
\* Seconds a session is followed for when it is swept every second.
MaxAge == 200

----------------------------------------------------------------------------
\* Program constants.

EventQueueCap == 16
SendQueueCap == 16
HeartbeatGap == -60
JitterLow == -60
JitterHigh == 60
IdleCloseSecs == 300
GatherThreshold == 60

Sessions == 1..NSessions
Callers == 1..NCallers
\* The empty channel name is the server side.
Channels == {"", "a"}
None == 0

\* Unix seconds when the model starts, and the steps the clock can take.
Now0 == 1000

----------------------------------------------------------------------------
\* u32 arithmetic on 16-bit limbs.

U32Zero == <<0, 0>>
U32Max == <<65535, 65535>>
U32Of(n) == <<n \div 65536, n % 65536>>

\* AtomicU32::fetch_add(1): wraps at 2^32.
U32WrapInc(c) ==
    IF c[2] < 65535 THEN <<c[1], c[2] + 1>>
    ELSE <<(c[1] + 1) % 65536, 0>>

\* c % n for 1 <= n < 65536.
U32Mod(c, n) == ((c[1] % n) * (65536 % n) + (c[2] % n)) % n

----------------------------------------------------------------------------
VARIABLES
    \* ChannelSessionManager: channel name -> ChannelMuxSession, and the
    \* retired bucket.  A slot or bucket entry holds a MuxSession, named here
    \* by its id; None is an empty slot.
    channels, retired,
    \* process_rmux_session of each session: "unborn", "running", "ended".
    phase,
    \* ctx.channel of each session.
    chan,
    \* MuxSession fields.
    pendding_streams, stream_id_seed, max_alive_secs,
    \* MuxSessionState (shared by the tasks and the registry).
    state,
    \* The event queue (event_tx/event_rx) and the byte queue
    \* (send_tx/send_rx): [items, closed].
    event_q, send_q,
    \* process_event: its position, the event in hand, its stream table.
    pcE, eEv, streams,
    \* handle_recv: its position and the event it read.
    pcR, rEv,
    \* handle_send: its position and the gather accumulator.
    pcW, vbuf,
    \* The oneshot close signal from handle_send to handle_recv.
    drop,
    \* routine_all_sessions: its position and the actions it collected.
    pcS, actions,
    \* create_stream callers: [pc, sid, ev, ret].
    cs,
    \* The last report_update_window call: [found, ready, sent, ret].
    ruw,
    \* Unix time in seconds.
    now,
    \* The calls a run has left: [ticks, sweeps, creates, remote, reports,
    \* local].
    budget,
    \* A record kept beside the program, in the runs that ask for it: what
    \* each task did after the closed flag was set, [kept, writes, events],
    \* the buffers handed to the byte queue and not written yet, and whether
    \* every write so far took its bytes from their front, [unwritten,
    \* inOrder]; and, in the runs that ask for it (seen), the event the Event
    \* Loop dispatched last with what held when it did, [last].
    afterClosed,
    \* The age check alone: [M, age, active].
    aging

regVars == <<channels, retired>>
sessVars == <<phase, chan, pendding_streams, stream_id_seed, max_alive_secs>>
queueVars == <<event_q, send_q>>
loopVars == <<pcE, eEv, streams>>
readerVars == <<pcR, rEv>>
writerVars == <<pcW, vbuf, drop>>
sweepVars == <<pcS, actions>>
vars == <<channels, retired, phase, chan, pendding_streams, stream_id_seed,
          max_alive_secs, state, event_q, send_q, pcE, eEv, streams, pcR, rEv,
          pcW, vbuf, drop, pcS, actions, cs, ruw, now, budget, afterClosed, aging>>

----------------------------------------------------------------------------
\* Events.

NoEvent == [flags |-> "NONE", stream_id |-> 0, len |-> U32Zero, remote |-> FALSE, body |-> ""]
Ev(f, sid, r) == [flags |-> f, stream_id |-> sid, len |-> U32Zero, remote |-> r, body |-> ""]
new_shutdown_event(sid, r) == Ev("SHUTDOWN", sid, r)
new_ping_event(sid, r) == Ev("PING", sid, r)
new_pong_event(sid, r) == Ev("PONG", sid, r)
new_routine_event(sid) == Ev("ROUTINE", sid, FALSE)
new_syn_event(sid) == [Ev("SYN", sid, FALSE) EXCEPT !.body = "req"]
new_window_update_event(sid, window, r) == [Ev("WIN_UPDATE", sid, r) EXCEPT !.len = window]

\* A bounded mpsc queue.
\* reserved counts the slots poll_ready has set aside for a coming try_send.
NewQueue == [items |-> <<>>, closed |-> FALSE, reserved |-> 0]
\* Sender::send(x).await completes: Err when the receiver is closed, Ok once
\* there is room; it waits while the queue is full and open.
CanSend(q, cap) == q.closed \/ Len(q.items) + q.reserved < cap
Sent(q, x) == IF q.closed THEN q ELSE [q EXCEPT !.items = Append(@, x)]

----------------------------------------------------------------------------
\* MuxSessionState.

NewState == [last_ping_send_time |-> 0, last_pong_recv_time |-> 0, born_time |-> 0,
             retired |-> FALSE, io_active_unix_secs |-> 0, closed |-> FALSE]

ping_pong_gap(st) ==
    IF st.last_ping_send_time > 0 /\ st.last_pong_recv_time > 0
    THEN st.last_pong_recv_time - st.last_ping_send_time
    ELSE 0

get_io_idle_secs(st, now_unix_secs) ==
    IF st.io_active_unix_secs = 0 THEN 0 ELSE now_unix_secs - st.io_active_unix_secs

----------------------------------------------------------------------------
\* The registry's operations on the channel map and the retired bucket.

NewGroup == [sessions |-> <<>>, cursor |-> U32Zero]

FirstIndex(seq, x) ==
    IF \E i \in 1..Len(seq) : seq[i] = x
    THEN CHOOSE i \in 1..Len(seq) : seq[i] = x /\ \A j \in 1..(i - 1) : seq[j] # x
    ELSE 0

RemoveAt(seq, i) == SubSeq(seq, 1, i - 1) \o SubSeq(seq, i + 1, Len(seq))

\* A store that pushes a new slot whether or not a slot is empty.
store_mux_session_pushes(cmap, channel, sid) ==
    LET c1 == IF channel \in DOMAIN cmap THEN cmap ELSE cmap @@ (channel :> NewGroup)
    IN  [c1 EXCEPT ![channel].sessions = Append(@, sid)]

store_mux_session(cmap, channel, sid) ==
    LET c1 == IF channel \in DOMAIN cmap THEN cmap ELSE cmap @@ (channel :> NewGroup)
        ss == c1[channel].sessions
        i == FirstIndex(ss, None)
    IN  [c1 EXCEPT ![channel].sessions =
            IF i > 0 THEN [ss EXCEPT ![i] = sid] ELSE Append(ss, sid)]

\* An erase that, when no slot of the channel holds sid, removes the oldest
\* session of the retired bucket without a look at its id.
erase_mux_session_oldest_retired(cmap, bucket, channel, sid) ==
    LET i == IF channel \in DOMAIN cmap THEN FirstIndex(cmap[channel].sessions, sid) ELSE 0
    IN  IF i > 0
        THEN [channels |-> [cmap EXCEPT ![channel].sessions[i] = None], retired |-> bucket]
        ELSE IF bucket # <<>>
        THEN [channels |-> cmap, retired |-> Tail(bucket)]
        ELSE [channels |-> cmap, retired |-> bucket]

\* The registry [channels, retired] after erase_mux_session(channel, sid).
erase_mux_session(cmap, bucket, channel, sid) ==
    LET i == IF channel \in DOMAIN cmap THEN FirstIndex(cmap[channel].sessions, sid) ELSE 0
        k == FirstIndex(bucket, sid)
    IN  IF i > 0
        THEN [channels |-> [cmap EXCEPT ![channel].sessions[i] = None], retired |-> bucket]
        ELSE IF k > 0
        THEN [channels |-> cmap, retired |-> RemoveAt(bucket, k)]
        ELSE [channels |-> cmap, retired |-> bucket]

get_channel_session_size(cmap, channel) ==
    IF channel \in DOMAIN cmap
    THEN Cardinality({i \in 1..Len(cmap[channel].sessions) : cmap[channel].sessions[i] # None})
    ELSE 0

\* Whether hanle_pendding_mux_streams finds the session: it looks through
\* the slots of the channel's group only.
PendingFound(cmap, channel, sid) ==
    channel \in DOMAIN cmap /\ FirstIndex(cmap[channel].sessions, sid) > 0

----------------------------------------------------------------------------
\* create_stream, under the registry lock.

\* The loop over the group's slots: n more tries from cursor c.  The result
\* is the slot picked (0: none) and the cursor after the fetch_adds.
RECURSIVE PickSlot(_, _, _)
PickSlot(ss, c, n) ==
    IF n = 0 THEN [idx |-> 0, cursor |-> c]
    ELSE LET idx == U32Mod(c, Len(ss)) + 1
         IN  IF ss[idx] # None
             THEN [idx |-> idx, cursor |-> U32WrapInc(c)]
             ELSE PickSlot(ss, U32WrapInc(c), n - 1)

\* The slot create_stream picks in the channel's group, and the cursor after.
create_stream_pick(cmap, channel) ==
    IF channel \in DOMAIN cmap
    THEN PickSlot(cmap[channel].sessions, cmap[channel].cursor, Len(cmap[channel].sessions))
    ELSE [idx |-> 0, cursor |-> U32Zero]

----------------------------------------------------------------------------
\* routine_all_sessions, under the registry lock.

\* born_time.elapsed().as_secs() > (max_alive_secs as i64 + rand_inc) as u64.
\* A negative sum cast to u64 is at least 2^64 - 60, above any elapsed time.
AgeExpired(M, elapsed, rand_inc) ==
    LET cmp_secs == M + rand_inc
    IN  IF cmp_secs < 0 THEN FALSE ELSE elapsed > cmp_secs

Action(ev, sid) == [ev |-> ev, to |-> sid]

\* One slot, with a heartbeat retirement that sends no SHUTDOWN.
SweepSlotNoShutdown(acc, channel, i, maxAlive, expired) ==
    LET s == acc.channels[channel].sessions[i]
        emptied == [acc.channels EXCEPT ![channel].sessions[i] = None]
        retire(a) == [a EXCEPT !.state[s].retired = TRUE,
                               !.retired = Append(@, s),
                               !.channels = emptied]
        pinged == IF channel # ""
                  THEN Append(acc.actions, Action(new_ping_event(0, FALSE), s))
                  ELSE acc.actions
        ticked == [acc EXCEPT !.actions = Append(pinged, Action(new_routine_event(0), s))]
    IN  IF s = None THEN acc
        ELSE IF ping_pong_gap(acc.state[s]) < HeartbeatGap
        THEN retire(acc)
        ELSE IF maxAlive[s] > 0 /\ channel # "" /\ expired[s]
        THEN retire(ticked)
        ELSE ticked

\* One slot, with a retirement that leaves the session in its slot.
SweepSlotKeepsSlot(acc, channel, i, maxAlive, expired) ==
    LET s == acc.channels[channel].sessions[i]
        retire(a) == [a EXCEPT !.state[s].retired = TRUE,
                               !.retired = Append(@, s)]
        pinged == IF channel # ""
                  THEN Append(acc.actions, Action(new_ping_event(0, FALSE), s))
                  ELSE acc.actions
        ticked == [acc EXCEPT !.actions = Append(pinged, Action(new_routine_event(0), s))]
    IN  IF s = None THEN acc
        ELSE IF ping_pong_gap(acc.state[s]) < HeartbeatGap
        THEN retire([acc EXCEPT !.actions =
                        Append(@, Action(new_shutdown_event(0, FALSE), s))])
        ELSE IF maxAlive[s] > 0 /\ channel # "" /\ expired[s]
        THEN retire(ticked)
        ELSE ticked

\* One slot of one group.  acc is [channels, retired, actions, state], where
\* acc.retired is the sweep's local list of the sessions it retires.
\* expired[s] is the outcome of the age comparison for s.
SweepSlot(acc, channel, i, maxAlive, expired) ==
    LET s == acc.channels[channel].sessions[i]
        emptied == [acc.channels EXCEPT ![channel].sessions[i] = None]
        retire(a) == [a EXCEPT !.state[s].retired = TRUE,
                               !.retired = Append(@, s),
                               !.channels = emptied]
        pinged == IF channel # ""
                  THEN Append(acc.actions, Action(new_ping_event(0, FALSE), s))
                  ELSE acc.actions
        ticked == [acc EXCEPT !.actions = Append(pinged, Action(new_routine_event(0), s))]
    IN  IF s = None THEN acc
        ELSE IF ping_pong_gap(acc.state[s]) < HeartbeatGap
        THEN retire([acc EXCEPT !.actions =
                        Append(@, Action(new_shutdown_event(0, FALSE), s))])
        ELSE IF maxAlive[s] > 0 /\ channel # "" /\ expired[s]
        THEN retire(ticked)
        ELSE ticked

\* The slots of the groups, in the order the sweep visits them: order is the
\* iteration order of the channel map.
RECURSIVE SweepPositions(_, _)
SweepPositions(cmap, order) ==
    IF order = <<>> THEN <<>>
    ELSE [i \in 1..Len(cmap[Head(order)].sessions) |-> <<Head(order), i>>]
         \o SweepPositions(cmap, Tail(order))

RECURSIVE SweepFold(_, _, _, _)
SweepFold(acc, pos, maxAlive, expired) ==
    IF pos = <<>> THEN acc
    ELSE SweepFold(SweepSlot(acc, Head(pos)[1], Head(pos)[2], maxAlive, expired),
                   Tail(pos), maxAlive, expired)

\* A locked section that appends the sessions it retires to the bucket before
\* it collects the ROUTINE events of the bucket.
routine_all_sessions_appended_first(cmap, bucket, st, maxAlive, order, expired) ==
    LET swept == SweepFold([channels |-> cmap, retired |-> <<>>, actions |-> <<>>, state |-> st],
                           SweepPositions(cmap, order), maxAlive, expired)
        all == bucket \o swept.retired
        ticks == [k \in 1..Len(all) |-> Action(new_routine_event(0), all[k])]
    IN  [swept EXCEPT !.actions = @ \o ticks, !.retired = all]

\* The whole locked section: [channels, retired, actions, state] after it.
routine_all_sessions(cmap, bucket, st, maxAlive, order, expired) ==
    LET swept == SweepFold([channels |-> cmap, retired |-> <<>>, actions |-> <<>>, state |-> st],
                           SweepPositions(cmap, order), maxAlive, expired)
        ticks == [k \in 1..Len(bucket) |-> Action(new_routine_event(0), bucket[k])]
    IN  [swept EXCEPT !.actions = @ \o ticks, !.retired = bucket \o @]

\* The orders in which a set of channels can be iterated.
Orders(S) == {o \in [1..Cardinality(S) -> S] : \A c \in S : \E i \in DOMAIN o : o[i] = c}

\* The registry lock is free: report_update_window holds it from its lookup
\* to its return.
Unlocked == ruw.pc # "try"

----------------------------------------------------------------------------
\* The clock, and the start and the end of a session.

Spend(field) == [budget EXCEPT ![field] = @ - 1]

Tick(d) ==
    /\ budget.ticks > 0
    /\ now' = now + d
    /\ budget' = Spend("ticks")
    /\ UNCHANGED <<regVars, sessVars, state, queueVars, loopVars, readerVars,
                   writerVars, sweepVars, cs, ruw, afterClosed, aging>>

\* process_rmux_session up to the three tasks: the queues, the shared state,
\* the MuxSession and its registration.  Sessions start in the order of
\* their ids.
StartSession(s, channel, M) ==
    /\ phase[s] = "unborn"
    /\ Unlocked
    /\ \A t \in Sessions : t < s => phase[t] # "unborn"
    /\ phase' = [phase EXCEPT ![s] = "running"]
    /\ chan' = [chan EXCEPT ![s] = channel]
    /\ stream_id_seed' = [stream_id_seed EXCEPT ![s] = IF channel = "" THEN 2 ELSE 1]
    /\ max_alive_secs' = [max_alive_secs EXCEPT ![s] = M]
    /\ pendding_streams' = [pendding_streams EXCEPT ![s] = <<>>]
    /\ state' = [state EXCEPT ![s] = [NewState EXCEPT !.born_time = now]]
    /\ event_q' = [event_q EXCEPT ![s] = NewQueue]
    /\ send_q' = [send_q EXCEPT ![s] = NewQueue]
    /\ channels' = store_mux_session(channels, channel, s)
    /\ pcE' = [pcE EXCEPT ![s] = "top"]
    /\ pcR' = [pcR EXCEPT ![s] = "top"]
    /\ pcW' = [pcW EXCEPT ![s] = "top"]
    /\ UNCHANGED <<retired, eEv, streams, rEv, vbuf, drop, sweepVars, cs, ruw,
                   now, budget, afterClosed, aging>>

\* join3 has returned: erase_mux_session(channel, tunnel_id).
JoinErase(s) ==
    /\ phase[s] = "running"
    /\ pcR[s] = "done" /\ pcE[s] = "done" /\ pcW[s] = "done"
    /\ Unlocked
    /\ LET reg == erase_mux_session(channels, retired, chan[s], s)
       IN  channels' = reg.channels /\ retired' = reg.retired
    /\ phase' = [phase EXCEPT ![s] = "ended"]
    /\ UNCHANGED <<chan, pendding_streams, stream_id_seed, max_alive_secs, state,
                   queueVars, loopVars, readerVars, writerVars, sweepVars, cs, ruw,
                   now, budget, afterClosed, aging>>

----------------------------------------------------------------------------
\* routine_all_sessions.

\* What the age comparison of a session can give, over the jitters
\* rng.gen_range(-60, 60) can draw.
AgeOutcomes(s) ==
    {AgeExpired(max_alive_secs[s], now - state[s].born_time, j) :
        j \in JitterLow..(JitterHigh - 1)}

\* The locked section.
SweepLock ==
    /\ pcS = "idle"
    /\ budget.sweeps > 0
    /\ Unlocked
    /\ \E order \in Orders(DOMAIN channels), expired \in [Sessions -> BOOLEAN] :
          /\ \A s \in Sessions : expired[s] \in AgeOutcomes(s)
          /\ LET r == routine_all_sessions(channels, retired, state, max_alive_secs,
                                           order, expired)
             IN  /\ channels' = r.channels
                 /\ retired' = r.retired
                 /\ state' = r.state
                 /\ actions' = r.actions
    /\ pcS' = "dispatch"
    /\ budget' = Spend("sweeps")
    /\ UNCHANGED <<sessVars, queueVars, loopVars, readerVars, writerVars, cs, ruw,
                   now, afterClosed, aging>>

\* action.sender.send(ev).await for the next collected action.
SweepSend ==
    /\ pcS = "dispatch"
    /\ actions # <<>>
    /\ LET a == Head(actions)
       IN  /\ CanSend(event_q[a.to], EventQueueCap)
           /\ event_q' = [event_q EXCEPT ![a.to] = Sent(@, a.ev)]
    /\ actions' = Tail(actions)
    /\ UNCHANGED <<regVars, sessVars, state, send_q, loopVars, readerVars, writerVars,
                   pcS, cs, ruw, now, budget, afterClosed, aging>>

SweepDone ==
    /\ pcS = "dispatch"
    /\ actions = <<>>
    /\ pcS' = "idle"
    /\ UNCHANGED <<regVars, sessVars, state, queueVars, loopVars, readerVars,
                   writerVars, actions, cs, ruw, now, budget, afterClosed, aging>>

----------------------------------------------------------------------------
\* create_stream.

IdleCaller == [pc |-> "idle", sid |-> None, ev |-> NoEvent, ret |-> "none"]

\* create_stream whose stream_id_seed advances by one.
CreateLockStepOne(c, channel) ==
    /\ cs[c].pc = "idle"
    /\ budget.creates > 0
    /\ Unlocked
    /\ budget' = Spend("creates")
    /\ LET pick == create_stream_pick(channels, channel)
           sid == channels[channel].sessions[pick.idx]
           cev == new_syn_event(stream_id_seed[sid])
       IN  IF pick.idx = 0
           THEN /\ channels' = IF channel \in DOMAIN channels
                               THEN [channels EXCEPT ![channel].cursor = pick.cursor]
                               ELSE channels
                /\ cs' = [cs EXCEPT ![c] = [IdleCaller EXCEPT !.ret = "no channel found."]]
                /\ UNCHANGED <<stream_id_seed, pendding_streams>>
           ELSE /\ channels' = [channels EXCEPT ![channel].cursor = pick.cursor]
                /\ stream_id_seed' = [stream_id_seed EXCEPT ![sid] = @ + 1]
                /\ pendding_streams' = [pendding_streams EXCEPT
                                           ![sid] = Append(@, cev.stream_id)]
                /\ cs' = [cs EXCEPT ![c] = [pc |-> "send", sid |-> sid, ev |-> cev,
                                            ret |-> "none"]]
    /\ UNCHANGED <<retired, phase, chan, max_alive_secs, state, queueVars, loopVars,
                   readerVars, writerVars, sweepVars, ruw, now, afterClosed, aging>>

\* The locked section: pick a session, take a stream id from its seed, push
\* the stream to its pendding_streams.
CreateLock(c, channel) ==
    /\ cs[c].pc = "idle"
    /\ budget.creates > 0
    /\ Unlocked
    /\ budget' = Spend("creates")
    /\ LET pick == create_stream_pick(channels, channel)
           sid == channels[channel].sessions[pick.idx]
           cev == new_syn_event(stream_id_seed[sid])
       IN  IF pick.idx = 0
           THEN /\ channels' = IF channel \in DOMAIN channels
                               THEN [channels EXCEPT ![channel].cursor = pick.cursor]
                               ELSE channels
                /\ cs' = [cs EXCEPT ![c] = [IdleCaller EXCEPT !.ret = "no channel found."]]
                /\ UNCHANGED <<stream_id_seed, pendding_streams>>
           ELSE /\ channels' = [channels EXCEPT ![channel].cursor = pick.cursor]
                /\ stream_id_seed' = [stream_id_seed EXCEPT ![sid] = @ + 2]
                /\ pendding_streams' = [pendding_streams EXCEPT
                                           ![sid] = Append(@, cev.stream_id)]
                /\ cs' = [cs EXCEPT ![c] = [pc |-> "send", sid |-> sid, ev |-> cev,
                                            ret |-> "none"]]
    /\ UNCHANGED <<retired, phase, chan, max_alive_secs, state, queueVars, loopVars,
                   readerVars, writerVars, sweepVars, ruw, now, afterClosed, aging>>

\* ev_sender.send(ev).await, its result dropped, and the return of Ok(stream).
CreateSend(c) ==
    /\ cs[c].pc = "send"
    /\ CanSend(event_q[cs[c].sid], EventQueueCap)
    /\ event_q' = [event_q EXCEPT ![cs[c].sid] = Sent(@, cs[c].ev)]
    /\ cs' = [cs EXCEPT ![c].pc = "idle", ![c].ret = "ok"]
    /\ UNCHANGED <<regVars, sessVars, state, send_q, loopVars, readerVars, writerVars,
                   sweepVars, ruw, now, budget, afterClosed, aging>>

\* A stream of session s sends a local event through its clone of event_tx
\* (MuxStream::close sends the FIN of the stream).
StreamSend(s, ev) ==
    /\ phase[s] = "running"
    /\ budget.local > 0
    /\ budget' = Spend("local")
    /\ ~ev.remote
    /\ CanSend(event_q[s], EventQueueCap)
    /\ event_q' = [event_q EXCEPT ![s] = Sent(@, ev)]
    /\ UNCHANGED <<regVars, sessVars, state, send_q, loopVars, readerVars, writerVars,
                   sweepVars, cs, ruw, now, afterClosed, aging>>

----------------------------------------------------------------------------
\* Streams and the stream table of process_event.

\* u32 saturating add.
U32SatAdd(a, b) ==
    LET lo == a[2] + b[2]
        hi == a[1] + b[1] + (lo \div 65536)
    IN  IF hi > 65535 THEN U32Max ELSE <<hi, lo % 65536>>

\* MuxStream::new: origin tells which path built it ("local": create_stream,
\* "remote": handle_syn).
MuxStreamNew(origin) ==
    [send_window |-> U32Zero, origin |-> origin, closed |-> FALSE, offered |-> 0]

update_send_window(stream, delta) ==
    [stream EXCEPT !.send_window = U32SatAdd(@, delta)]

offer_data(stream) == [stream EXCEPT !.offered = @ + 1]

EmptyTable == [id \in {} |-> MuxStreamNew("local")]

\* HashMap::insert: replaces the entry of an id already there.
Insert(table, id, stream) ==
    [k \in DOMAIN table \cup {id} |-> IF k = id THEN stream ELSE table[k]]

\* entry(id).or_insert(stream): keeps the entry of an id already there.
OrInsert(table, id, stream) ==
    IF id \in DOMAIN table THEN table ELSE Insert(table, id, stream)

Remove(table, id) == [k \in DOMAIN table \ {id} |-> table[k]]

\* hanle_pendding_mux_streams: pop the pending streams of the session, if it
\* is in a slot of its channel's group, into the table.
RECURSIVE DrainInto(_, _)
DrainInto(table, pending) ==
    IF pending = <<>> THEN table
    ELSE DrainInto(Insert(table, pending[Len(pending)], MuxStreamNew("local")),
                   SubSeq(pending, 1, Len(pending) - 1))

hanle_pendding_mux_streams(cmap, channel, sid, pending, table) ==
    IF PendingFound(cmap, channel, sid)
    THEN [streams |-> DrainInto(table, pending), pending |-> <<>>]
    ELSE [streams |-> table, pending |-> pending]

\* handle_fin_event: [streams, closed, exit].
handle_fin_event(id, table, st) ==
    LET left == Remove(table, id)
        close == st.retired /\ DOMAIN left = {}
    IN  [streams |-> left, closed |-> st.closed \/ close, exit |-> close]

\* A routine tick that closes only after more than 300 idle seconds.
handle_routine_event_late(table, st, now_unix_secs) ==
    (st.retired /\ DOMAIN table = {}) \/ get_io_idle_secs(st, now_unix_secs) > IdleCloseSecs

\* handle_routine_event: whether the session should close.
handle_routine_event(table, st, now_unix_secs) ==
    (st.retired /\ DOMAIN table = {}) \/ get_io_idle_secs(st, now_unix_secs) >= IdleCloseSecs

\* The end of process_event: every stream of the table closed.
CloseAll(table) == [k \in DOMAIN table |-> [table[k] EXCEPT !.closed = TRUE]]

\* wctx.encrypt(ev, buf): the frame handed to the Writer.
FrameLen(ev) == IF ev.flags = "DATA" THEN 30 ELSE 20
Frame(ev) == [flags |-> ev.flags, stream_id |-> ev.stream_id, size |-> FrameLen(ev)]
EmptyBuf == [flags |-> "NONE", stream_id |-> 0, size |-> 0]

----------------------------------------------------------------------------
\* process_event: what one event does.  The result is the stream table, the
\* shared state and the pending streams after it, what the loop does next
\* ("continue", "send": hand out to the Writer first, "break") and the event
\* to hand out.

Result(table, st, pending, next, out) ==
    [streams |-> table, state |-> st, pending |-> pending, next |-> next, out |-> out]

handle_ping_event(st, is_remote, now_unix_secs) ==
    IF ~is_remote THEN [st EXCEPT !.last_ping_send_time = now_unix_secs] ELSE st

handle_local_event(cmap, channel, sid, ev, table, st, pending, now_unix_secs) ==
    IF ev.flags = "SHUTDOWN" THEN Result(table, st, pending, "break", NoEvent)
    ELSE
    LET d == IF ev.flags = "SYN"
             THEN hanle_pendding_mux_streams(cmap, channel, sid, pending, table)
             ELSE [streams |-> table, pending |-> pending]
        fin == handle_fin_event(ev.stream_id, d.streams, st)
    IN  IF ev.flags = "FIN" /\ fin.exit
        THEN Result(fin.streams, [st EXCEPT !.closed = TRUE], d.pending, "break", NoEvent)
        ELSE IF ev.flags = "FIN"
        THEN Result(fin.streams, st, d.pending, "send", ev)
        ELSE IF ev.flags = "ROUTINE"
        THEN IF handle_routine_event(d.streams, st, now_unix_secs)
             THEN Result(d.streams, [st EXCEPT !.closed = TRUE], d.pending, "break", NoEvent)
             ELSE Result(d.streams, st, d.pending, "continue", NoEvent)
        ELSE Result(d.streams, st, d.pending, "send", ev)

\* handle_syn and the insertion of its stream.
\* A handle_syn whose stream goes to the table with insert.
handle_syn_inserts(ev, table) ==
    IF ev.body = "req"
    THEN Insert(table, ev.stream_id, MuxStreamNew("remote"))
    ELSE table

handle_syn(ev, table) ==
    IF ev.body = "req"
    THEN OrInsert(table, ev.stream_id, MuxStreamNew("remote"))
    ELSE table

\* WIN_UPDATE that sets the window to the delta instead of adding it.
handle_window_update_set(ev, table) ==
    IF ev.stream_id \in DOMAIN table
    THEN [table EXCEPT ![ev.stream_id].send_window = ev.len]
    ELSE table

\* WIN_UPDATE from the wire.
handle_window_update(ev, table) ==
    IF ev.stream_id \in DOMAIN table
    THEN [table EXCEPT ![ev.stream_id] = update_send_window(@, ev.len)]
    ELSE table

\* A dispatch of remote events that ends the loop on a frame it cannot use.
handle_remote_event_strict(ev, table, st, pending, now_unix_secs) ==
    IF \/ ev.flags = "SYN" /\ ev.body = "req"
       \/ ev.flags = "DATA" /\ ev.stream_id \in DOMAIN table
    THEN Result(IF ev.flags = "SYN" THEN OrInsert(table, ev.stream_id, MuxStreamNew("remote"))
                ELSE [table EXCEPT ![ev.stream_id].offered = @ + 1],
                st, pending, "continue", NoEvent)
    ELSE Result(table, [st EXCEPT !.closed = TRUE], pending, "break", NoEvent)

\* A dispatch of remote events that lets SHUTDOWN and ROUTINE frames from the
\* wire act as the local events do.
handle_remote_event_internal(ev, table, st, pending, now_unix_secs) ==
    IF ev.flags = "SHUTDOWN"
       \/ (ev.flags = "ROUTINE" /\ handle_routine_event(table, st, now_unix_secs))
    THEN Result(table, [st EXCEPT !.closed = TRUE], pending, "break", NoEvent)
    ELSE Result(table, st, pending, "continue", NoEvent)

handle_remote_event(ev, table, st, pending, now_unix_secs) ==
    CASE ev.flags = "SYN" ->
            Result(handle_syn(ev, table), st, pending, "continue", NoEvent)
      [] ev.flags = "FIN" ->
            LET fin == handle_fin_event(ev.stream_id, table, st)
            IN  IF fin.exit
                THEN Result(fin.streams, [st EXCEPT !.closed = TRUE], pending, "break", NoEvent)
                ELSE Result(fin.streams, st, pending, "continue", NoEvent)
      [] ev.flags = "DATA" ->
            Result(IF ev.stream_id \in DOMAIN table
                   THEN [table EXCEPT ![ev.stream_id] = offer_data(@)]
                   ELSE table,
                   st, pending, "continue", NoEvent)
      [] ev.flags = "PING" ->
            Result(table, st, pending, "send", new_pong_event(ev.stream_id, FALSE))
      [] ev.flags = "PONG" ->
            Result(table, [st EXCEPT !.last_pong_recv_time = now_unix_secs], pending,
                   "continue", NoEvent)
      [] ev.flags = "WIN_UPDATE" ->
            Result(handle_window_update(ev, table), st, pending, "continue", NoEvent)
      [] OTHER ->
            Result(table, st, pending, "continue", NoEvent)

process_event(cmap, channel, sid, ev, table, st, pending, now_unix_secs) ==
    LET st1 == IF ev.flags = "PING"
               THEN handle_ping_event(st, ev.remote, now_unix_secs)
               ELSE st
    IN  IF ~ev.remote
        THEN handle_local_event(cmap, channel, sid, ev, table, st1, pending, now_unix_secs)
        ELSE handle_remote_event(ev, table, st1, pending, now_unix_secs)

----------------------------------------------------------------------------
\* The record of what the tasks of s do once its closed flag is set, for the
\* runs that keep it: a count that stops at 2.
Noted(s, count) ==
    IF afterClosed[s].kept /\ state[s].closed /\ count < 2 THEN count + 1 ELSE count

\* The record of the event the Event Loop of s dispatches: the event, whether
\* the session was retired, whether closed was set, the ids of its table, and
\* its I/O idle time, all as the dispatch found them, and the event
\* dispatched before it.
NotYet == [ev |-> NoEvent, retired |-> FALSE, closed |-> FALSE, ids |-> {}, idle |-> 0,
           prev |-> NoEvent]
Dispatched(s, ev, last) ==
    IF afterClosed[s].seen
    THEN [ev |-> ev, retired |-> state[s].retired, closed |-> state[s].closed,
          ids |-> DOMAIN streams[s], idle |-> get_io_idle_secs(state[s], now),
          prev |-> last.ev]
    ELSE last

\* The record of the buffers handed to the byte queue: buf joins it when the
\* send succeeds.
Handed(s, bufs, buf) ==
    IF afterClosed[s].kept /\ ~send_q[s].closed THEN Append(bufs, buf) ELSE bufs

----------------------------------------------------------------------------
\* The Event Loop task.

\* The loop is left: closed is set, every stream is closed, event_rx is
\* closed; the empty buffer for the Writer is still to send.
LoopLeaves(s, table, st) ==
    /\ state' = [state EXCEPT ![s] = [st EXCEPT !.closed = TRUE]]
    /\ streams' = [streams EXCEPT ![s] = CloseAll(table)]
    /\ event_q' = [event_q EXCEPT ![s].closed = TRUE]
    /\ pcE' = [pcE EXCEPT ![s] = "last"]

\* The loop head without its test of the closed flag.
ELoopTopUnchecked(s) ==
    /\ pcE[s] = "top"
    /\ pcE' = [pcE EXCEPT ![s] = "recv"]
    /\ UNCHANGED <<state, streams, event_q>>
    /\ UNCHANGED <<regVars, sessVars, send_q, eEv, readerVars, writerVars, sweepVars,
                   cs, ruw, now, budget, afterClosed, aging>>

\* while !closed
ELoopTop(s) ==
    /\ pcE[s] = "top"
    /\ IF state[s].closed
       THEN LoopLeaves(s, streams[s], state[s])
       ELSE /\ pcE' = [pcE EXCEPT ![s] = "recv"]
            /\ UNCHANGED <<state, streams, event_q>>
    /\ UNCHANGED <<regVars, sessVars, send_q, eEv, readerVars, writerVars, sweepVars,
                   cs, ruw, now, budget, afterClosed, aging>>

\* event_rx.recv().await returns an event, and the event is dispatched.
ELoopRecv(s) ==
    /\ pcE[s] = "recv"
    /\ event_q[s].items # <<>>
    \* hanle_pendding_mux_streams takes the registry lock.
    /\ (Head(event_q[s].items).flags = "SYN" /\ ~Head(event_q[s].items).remote) => Unlocked
    /\ LET ev == Head(event_q[s].items)
           r == process_event(channels, chan[s], s, ev, streams[s], state[s],
                              pendding_streams[s], now)
       IN  /\ pendding_streams' = [pendding_streams EXCEPT ![s] = r.pending]
           /\ afterClosed' = [afterClosed EXCEPT ![s].events = Noted(s, @),
                                                ![s].last = Dispatched(s, ev, @)]
           /\ IF r.next = "break"
              THEN /\ state' = [state EXCEPT ![s] = [r.state EXCEPT !.closed = TRUE]]
                   /\ streams' = [streams EXCEPT ![s] = CloseAll(r.streams)]
                   /\ event_q' = [event_q EXCEPT ![s].items = Tail(@),
                                                  ![s].closed = TRUE]
                   /\ pcE' = [pcE EXCEPT ![s] = "last"]
                   /\ eEv' = eEv
              ELSE /\ state' = [state EXCEPT ![s] = r.state]
                   /\ streams' = [streams EXCEPT ![s] = r.streams]
                   /\ event_q' = [event_q EXCEPT ![s].items = Tail(@)]
                   /\ pcE' = [pcE EXCEPT ![s] = IF r.next = "send" THEN "send" ELSE "top"]
                   /\ eEv' = [eEv EXCEPT ![s] = r.out]
    /\ UNCHANGED <<regVars, phase, chan, stream_id_seed, max_alive_secs, send_q,
                   readerVars, writerVars, sweepVars, cs, ruw, now, budget, aging>>

\* send_local_event: send_tx.send(evbuf).await; the loop is left when the
\* Writer has closed the queue.
ELoopSend(s) ==
    /\ pcE[s] = "send"
    /\ CanSend(send_q[s], SendQueueCap)
    /\ IF send_q[s].closed
       THEN /\ LoopLeaves(s, streams[s], state[s])
            /\ UNCHANGED send_q
       ELSE /\ send_q' = [send_q EXCEPT ![s] = Sent(@, Frame(eEv[s]))]
            /\ pcE' = [pcE EXCEPT ![s] = "top"]
            /\ UNCHANGED <<state, streams, event_q>>
    /\ afterClosed' = [afterClosed EXCEPT ![s].unwritten = Handed(s, @, Frame(eEv[s]))]
    /\ eEv' = [eEv EXCEPT ![s] = NoEvent]
    /\ UNCHANGED <<regVars, sessVars, readerVars, writerVars, sweepVars, cs, ruw, now,
                   budget, aging>>

\* send_tx.send(Vec::new()).await, and the task is done.
ELoopLast(s) ==
    /\ pcE[s] = "last"
    /\ CanSend(send_q[s], SendQueueCap)
    /\ send_q' = [send_q EXCEPT ![s] = Sent(@, EmptyBuf)]
    /\ pcE' = [pcE EXCEPT ![s] = "done"]
    /\ UNCHANGED <<regVars, sessVars, state, event_q, eEv, streams, readerVars,
                   writerVars, sweepVars, cs, ruw, now, budget, afterClosed, aging>>

----------------------------------------------------------------------------
\* The Reader task (handle_recv).

\* The loop is left: closed is set; the SHUTDOWN event and the empty buffer
\* are still to send.
ReaderLeaves(s) ==
    /\ state' = [state EXCEPT ![s].closed = TRUE]
    /\ pcR' = [pcR EXCEPT ![s] = "shutdown"]

\* while !closed
ReaderTop(s) ==
    /\ pcR[s] = "top"
    /\ IF state[s].closed
       THEN ReaderLeaves(s)
       ELSE pcR' = [pcR EXCEPT ![s] = "select"] /\ UNCHANGED state
    /\ UNCHANGED <<regVars, sessVars, queueVars, loopVars, rEv, writerVars, sweepVars,
                   cs, ruw, now, budget, afterClosed, aging>>

\* read_encrypt_event returns Ok(Some(ev)).
ReaderRead(s, ev) ==
    /\ pcR[s] = "select"
    /\ budget.remote > 0
    /\ budget' = Spend("remote")
    /\ state' = [state EXCEPT ![s].io_active_unix_secs = now]
    /\ rEv' = [rEv EXCEPT ![s] = [ev EXCEPT !.remote = TRUE]]
    /\ pcR' = [pcR EXCEPT ![s] = "send"]
    /\ UNCHANGED <<regVars, sessVars, queueVars, loopVars, writerVars, sweepVars, cs,
                   ruw, now, afterClosed, aging>>

\* read_encrypt_event returns Ok(None) or Err.
ReaderFail(s) ==
    /\ pcR[s] = "select"
    /\ ReaderLeaves(s)
    /\ UNCHANGED <<regVars, sessVars, queueVars, loopVars, rEv, writerVars, sweepVars,
                   cs, ruw, now, budget, afterClosed, aging>>

\* The close signal of the Writer wins the select.
ReaderDrop(s) ==
    /\ pcR[s] = "select"
    /\ drop[s]
    /\ ReaderLeaves(s)
    /\ UNCHANGED <<regVars, sessVars, queueVars, loopVars, rEv, writerVars, sweepVars,
                   cs, ruw, now, budget, afterClosed, aging>>

\* handle_recv_event_tx.send(ev).await; the loop is left on an error.
ReaderSend(s) ==
    /\ pcR[s] = "send"
    /\ CanSend(event_q[s], EventQueueCap)
    /\ IF event_q[s].closed
       THEN ReaderLeaves(s) /\ UNCHANGED event_q
       ELSE /\ event_q' = [event_q EXCEPT ![s] = Sent(@, rEv[s])]
            /\ pcR' = [pcR EXCEPT ![s] = "top"]
            /\ UNCHANGED state
    /\ rEv' = [rEv EXCEPT ![s] = NoEvent]
    /\ UNCHANGED <<regVars, sessVars, send_q, loopVars, writerVars, sweepVars, cs, ruw,
                   now, budget, afterClosed, aging>>

\* handle_recv_event_tx.send(shutdown_ev).await
ReaderShutdown(s) ==
    /\ pcR[s] = "shutdown"
    /\ CanSend(event_q[s], EventQueueCap)
    /\ event_q' = [event_q EXCEPT ![s] = Sent(@, new_shutdown_event(0, FALSE))]
    /\ pcR' = [pcR EXCEPT ![s] = "empty"]
    /\ UNCHANGED <<regVars, sessVars, state, send_q, loopVars, rEv, writerVars,
                   sweepVars, cs, ruw, now, budget, afterClosed, aging>>

\* handle_recv_send_tx.send(Vec::new()).await, and the task is done.
ReaderEmpty(s) ==
    /\ pcR[s] = "empty"
    /\ CanSend(send_q[s], SendQueueCap)
    /\ send_q' = [send_q EXCEPT ![s] = Sent(@, EmptyBuf)]
    /\ pcR' = [pcR EXCEPT ![s] = "done"]
    /\ UNCHANGED <<regVars, sessVars, state, event_q, loopVars, rEv, writerVars,
                   sweepVars, cs, ruw, now, budget, afterClosed, aging>>

----------------------------------------------------------------------------
\* The Writer task (handle_send).

RECURSIVE VLen(_)
VLen(bufs) == IF bufs = <<>> THEN 0 ELSE Head(bufs).size + VLen(Tail(bufs))

\* A gather loop that takes one buffer at most.
GatherOnce(acc, items) ==
    IF VLen(acc) >= GatherThreshold \/ items = <<>>
    THEN [vbuf |-> acc, items |-> items, exit |-> FALSE]
    ELSE IF Head(items).size = 0
    THEN [vbuf |-> acc, items |-> Tail(items), exit |-> TRUE]
    ELSE [vbuf |-> Append(acc, Head(items)), items |-> Tail(items), exit |-> FALSE]

\* A gather loop that puts each buffer it takes in front of the accumulator.
RECURSIVE GatherNewestFirst(_, _)
GatherNewestFirst(acc, items) ==
    IF VLen(acc) >= GatherThreshold \/ items = <<>>
    THEN [vbuf |-> acc, items |-> items, exit |-> FALSE]
    ELSE IF Head(items).size = 0
    THEN [vbuf |-> acc, items |-> Tail(items), exit |-> TRUE]
    ELSE GatherNewestFirst(<<Head(items)>> \o acc, Tail(items))

\* while vbuf.vlen() < 60 { try_recv }: [vbuf, items, exit].
RECURSIVE Gather(_, _)
Gather(acc, items) ==
    IF VLen(acc) >= GatherThreshold \/ items = <<>>
    THEN [vbuf |-> acc, items |-> items, exit |-> FALSE]
    ELSE IF Head(items).size = 0
    THEN [vbuf |-> acc, items |-> Tail(items), exit |-> TRUE]
    ELSE Gather(Append(acc, Head(items)), Tail(items))

\* VBuf after n of its bytes were written.
RECURSIVE Advance(_, _)
Advance(bufs, n) ==
    IF n = 0 \/ bufs = <<>> THEN bufs
    ELSE IF n >= Head(bufs).size THEN Advance(Tail(bufs), n - Head(bufs).size)
    ELSE <<[Head(bufs) EXCEPT !.size = @ - n]>> \o Tail(bufs)

\* The first n bytes of bufs, as the pieces of the buffers they come from.
RECURSIVE Take(_, _)
Take(bufs, n) ==
    IF n = 0 \/ bufs = <<>> THEN <<>>
    ELSE IF n >= Head(bufs).size THEN <<Head(bufs)>> \o Take(Tail(bufs), n - Head(bufs).size)
    ELSE <<[Head(bufs) EXCEPT !.size = n]>>

\* A write of n bytes of the accumulator takes the bytes at the front of the
\* buffers handed to the byte queue and not written yet.
FromFront(s, n) ==
    afterClosed[s].kept => Take(vbuf[s], n) = Take(afterClosed[s].unwritten, n)

\* The exit of the Writer without the close signal to the Reader.
WriterLeavesSilently(s, items) ==
    /\ state' = [state EXCEPT ![s].closed = TRUE]
    /\ send_q' = [send_q EXCEPT ![s].items = items, ![s].closed = TRUE]
    /\ drop' = drop
    /\ pcW' = [pcW EXCEPT ![s] = "shutdown"]

\* The loop is left: closed is set, send_rx is closed, the close signal is
\* fired; the SHUTDOWN event is still to send.
WriterLeaves(s, items) ==
    /\ state' = [state EXCEPT ![s].closed = TRUE]
    /\ send_q' = [send_q EXCEPT ![s].items = items, ![s].closed = TRUE]
    /\ drop' = [drop EXCEPT ![s] = TRUE]
    /\ pcW' = [pcW EXCEPT ![s] = "shutdown"]

\* A gather loop that leaves io_active_unix_secs to the end of the write.
WriterGathersOnly(s, acc, items) ==
    LET g == Gather(acc, items)
    IN  IF g.exit
        THEN WriterLeaves(s, g.items) /\ vbuf' = [vbuf EXCEPT ![s] = g.vbuf]
        ELSE /\ vbuf' = [vbuf EXCEPT ![s] = g.vbuf]
             /\ send_q' = [send_q EXCEPT ![s].items = g.items]
             /\ pcW' = [pcW EXCEPT ![s] = "write"]
             /\ UNCHANGED <<state, drop>>

\* The gather loop, then the store of io_active_unix_secs before the write.
WriterGathers(s, acc, items) ==
    LET g == Gather(acc, items)
    IN  IF g.exit
        THEN WriterLeaves(s, g.items) /\ vbuf' = [vbuf EXCEPT ![s] = g.vbuf]
        ELSE /\ vbuf' = [vbuf EXCEPT ![s] = g.vbuf]
             /\ send_q' = [send_q EXCEPT ![s].items = g.items]
             /\ state' = [state EXCEPT ![s].io_active_unix_secs = now]
             /\ pcW' = [pcW EXCEPT ![s] = "write"]
             /\ UNCHANGED drop

\* while !closed, with bytes left in the accumulator or none.
WriterTop(s) ==
    /\ pcW[s] = "top"
    /\ IF state[s].closed
       THEN WriterLeaves(s, send_q[s].items) /\ UNCHANGED vbuf
       ELSE IF vbuf[s] = <<>>
       THEN pcW' = [pcW EXCEPT ![s] = "recv"] /\ UNCHANGED <<state, send_q, drop, vbuf>>
       ELSE WriterGathers(s, vbuf[s], send_q[s].items)
    /\ UNCHANGED <<regVars, sessVars, event_q, loopVars, readerVars, sweepVars, cs, ruw,
                   now, budget, afterClosed, aging>>

\* send_rx.recv().await returns a buffer.
WriterRecv(s) ==
    /\ pcW[s] = "recv"
    /\ send_q[s].items # <<>>
    /\ LET data == Head(send_q[s].items)
       IN  IF data.size = 0
           THEN WriterLeaves(s, Tail(send_q[s].items)) /\ UNCHANGED vbuf
           ELSE WriterGathers(s, <<data>>, Tail(send_q[s].items))
    /\ UNCHANGED <<regVars, sessVars, event_q, loopVars, readerVars, sweepVars, cs, ruw,
                   now, budget, afterClosed, aging>>

\* wi.write_buf(&mut vbuf).await returns Ok(n), n > 0.
WriterWrite(s, n) ==
    /\ pcW[s] = "write"
    /\ n \in 1..VLen(vbuf[s])
    /\ vbuf' = [vbuf EXCEPT ![s] = Advance(@, n)]
    /\ afterClosed' = [afterClosed EXCEPT
                          ![s].writes = Noted(s, @),
                          ![s].inOrder = @ /\ FromFront(s, n),
                          ![s].unwritten = IF afterClosed[s].kept THEN Advance(@, n) ELSE @]
    /\ pcW' = [pcW EXCEPT ![s] = "top"]
    /\ UNCHANGED <<regVars, sessVars, state, queueVars, loopVars, readerVars, drop,
                   sweepVars, cs, ruw, now, budget, aging>>

\* wi.write_buf returns Ok(0) or Err.
WriterFail(s) ==
    /\ pcW[s] = "write"
    /\ WriterLeaves(s, send_q[s].items)
    /\ UNCHANGED <<regVars, sessVars, event_q, loopVars, readerVars, vbuf, sweepVars,
                   cs, ruw, now, budget, afterClosed, aging>>

\* event_tx.send(shutdown_ev).await, and the task is done.
WriterShutdown(s) ==
    /\ pcW[s] = "shutdown"
    /\ CanSend(event_q[s], EventQueueCap)
    /\ event_q' = [event_q EXCEPT ![s] = Sent(@, new_shutdown_event(0, FALSE))]
    /\ pcW' = [pcW EXCEPT ![s] = "done"]
    /\ UNCHANGED <<regVars, sessVars, state, send_q, loopVars, readerVars, vbuf, drop,
                   sweepVars, cs, ruw, now, budget, afterClosed, aging>>

----------------------------------------------------------------------------
\* report_update_window.

IdleReport == [pc |-> "idle", to |-> None, ev |-> NoEvent,
               found |-> FALSE, ready |-> FALSE, sent |-> FALSE, ret |-> "none"]

\* The lookup in the channel's slots and event_tx.poll_ready(cx): Ready(Ok)
\* sets a slot of the queue aside; Pending (the queue is full) and
\* Ready(Err) (the queue is closed) return false.
ReportPoll(channel, session_id, stream_id, window) ==
    /\ ruw.pc = "idle"
    /\ budget.reports > 0
    /\ budget' = Spend("reports")
    /\ LET found == PendingFound(channels, channel, session_id)
           q == event_q[session_id]
           ready == ~q.closed /\ Len(q.items) + q.reserved < EventQueueCap
           ev == new_window_update_event(stream_id, window, FALSE)
       IN  IF ~found
           THEN /\ ruw' = [IdleReport EXCEPT !.ret = "true"]
                /\ UNCHANGED event_q
           ELSE IF ~ready
           THEN /\ ruw' = [IdleReport EXCEPT !.found = TRUE, !.to = session_id,
                                             !.ret = "false"]
                /\ UNCHANGED event_q
           ELSE /\ ruw' = [IdleReport EXCEPT !.pc = "try", !.found = TRUE, !.ready = TRUE,
                                             !.to = session_id, !.ev = ev]
                /\ event_q' = [event_q EXCEPT ![session_id].reserved = @ + 1]
    /\ UNCHANGED <<regVars, sessVars, state, send_q, loopVars, readerVars, writerVars,
                   sweepVars, cs, now, afterClosed, aging>>

\* try_send whose failure is reported as false.
ReportTrySendStrict ==
    /\ ruw.pc = "try"
    /\ LET q == event_q[ruw.to]
       IN  /\ event_q' = [event_q EXCEPT ![ruw.to] =
                  [items |-> IF q.closed THEN q.items ELSE Append(q.items, ruw.ev),
                   closed |-> q.closed, reserved |-> q.reserved - 1]]
           /\ ruw' = [ruw EXCEPT !.pc = "idle", !.sent = ~q.closed,
                                 !.ret = IF q.closed THEN "false" ELSE "true"]
    /\ UNCHANGED <<regVars, sessVars, state, send_q, loopVars, readerVars, writerVars,
                   sweepVars, cs, now, budget, afterClosed, aging>>

\* event_tx.try_send(ev): it fails when the queue was closed since; the loop
\* over the slots then ends and the function returns true.
ReportTrySend ==
    /\ ruw.pc = "try"
    /\ LET q == event_q[ruw.to]
       IN  /\ event_q' = [event_q EXCEPT ![ruw.to] =
                  [items |-> IF q.closed THEN q.items ELSE Append(q.items, ruw.ev),
                   closed |-> q.closed, reserved |-> q.reserved - 1]]
           /\ ruw' = [ruw EXCEPT !.pc = "idle", !.sent = ~q.closed, !.ret = "true"]
    /\ UNCHANGED <<regVars, sessVars, state, send_q, loopVars, readerVars, writerVars,
                   sweepVars, cs, now, budget, afterClosed, aging>>

----------------------------------------------------------------------------
\* The initial state: an empty registry, no session started, and the calls
\* the run may make.

InitAll(cmap, calls, kept, seen) ==
    /\ channels = cmap
    /\ retired = <<>>
    /\ phase = [s \in Sessions |-> "unborn"]
    /\ chan = [s \in Sessions |-> ""]
    /\ pendding_streams = [s \in Sessions |-> <<>>]
    /\ stream_id_seed = [s \in Sessions |-> 0]
    /\ max_alive_secs = [s \in Sessions |-> 0]
    /\ state = [s \in Sessions |-> NewState]
    /\ event_q = [s \in Sessions |-> NewQueue]
    /\ send_q = [s \in Sessions |-> NewQueue]
    /\ pcE = [s \in Sessions |-> "idle"]
    /\ eEv = [s \in Sessions |-> NoEvent]
    /\ streams = [s \in Sessions |-> EmptyTable]
    /\ pcR = [s \in Sessions |-> "idle"]
    /\ rEv = [s \in Sessions |-> NoEvent]
    /\ pcW = [s \in Sessions |-> "idle"]
    /\ vbuf = [s \in Sessions |-> <<>>]
    /\ drop = [s \in Sessions |-> FALSE]
    /\ pcS = "idle"
    /\ actions = <<>>
    /\ cs = [c \in Callers |-> IdleCaller]
    /\ ruw = IdleReport
    /\ now = Now0
    /\ budget = calls
    /\ afterClosed = [s \in Sessions |-> [kept |-> kept, writes |-> 0, events |-> 0,
                                          unwritten |-> <<>>, inOrder |-> TRUE,
                                          seen |-> seen, last |-> NotYet]]
    /\ aging = [M |-> 0, age |-> 0, active |-> FALSE]

InitFrom(cmap, calls, kept) == InitAll(cmap, calls, kept, FALSE)
NoChannels == [c \in {} |-> NewGroup]
InitWith(calls, kept) == InitFrom(NoChannels, calls, kept)

----------------------------------------------------------------------------
\* The inputs of the model.

\* max_alive_secs of a session: 0 disables the age check.
MaxAlives == {0, 100}
\* Seconds the clock advances by in one step.
LongTick == 61
\* Events the peer sends.
Wire == {new_ping_event(0, TRUE)}
\* Bytes a short write takes from the accumulator.
ShortWrite == 10
WriteSizes(s) == {ShortWrite, VLen(vbuf[s])}

----------------------------------------------------------------------------
\* The hand-off of pending streams: one session, create_stream callers, the
\* routine sweep and the Event Loop.

Calls(ticks, sweeps, creates, remote, reports) ==
    [ticks |-> ticks, sweeps |-> sweeps, creates |-> creates, remote |-> remote,
     reports |-> reports, local |-> 0]

\* The same with n events that the streams of a session send.
WithLocal(calls, n) == [calls EXCEPT !.local = n]

InitHandOff == InitWith(Calls(MaxTicks, FewSweeps, MaxCreate, 0, 0), FALSE)

NextHandOff ==
    \/ \E channel \in Channels, M \in MaxAlives : StartSession(1, channel, M)
    \/ \E c \in Callers, channel \in Channels : CreateLock(c, channel)
    \/ \E c \in Callers : CreateSend(c)
    \/ SweepLock \/ SweepSend \/ SweepDone
    \/ ELoopTop(1) \/ ELoopRecv(1) \/ ELoopSend(1) \/ ELoopLast(1)
    \/ Tick(LongTick)

SpecHandOff == InitHandOff /\ [][NextHandOff]_vars

\* C1: whenever the Event Loop is handing the SYN of a stream made by
\* create_stream to the Writer, that stream id is in its stream table.
C1_SynAfterInsert ==
    \A s \in Sessions :
        (pcE[s] = "send" /\ eEv[s].flags = "SYN" /\ ~eEv[s].remote)
            => eEv[s].stream_id \in DOMAIN streams[s]

----------------------------------------------------------------------------
\* One session with its three tasks, and the routine sweep.

Init == InitWith(Calls(0, FewSweeps, 0, MaxRemote, 0), TRUE)

Next ==
    \/ \E channel \in Channels : StartSession(1, channel, 0)
    \/ ReaderTop(1) \/ ReaderFail(1) \/ ReaderDrop(1) \/ ReaderSend(1)
    \/ \E ev \in Wire : ReaderRead(1, ev)
    \/ ReaderShutdown(1) \/ ReaderEmpty(1)
    \/ ELoopTop(1) \/ ELoopRecv(1) \/ ELoopSend(1) \/ ELoopLast(1)
    \/ WriterTop(1) \/ WriterRecv(1) \/ WriterFail(1) \/ WriterShutdown(1)
    \/ \E n \in WriteSizes(1) : WriterWrite(1, n)
    \/ SweepLock \/ SweepSend \/ SweepDone
    \/ JoinErase(1)

Spec == Init /\ [][Next]_vars

\* C3 as stated: once the closed flag of a session is set, its Writer
\* completes no write and its Event Loop dispatches no event.
C3_NothingAfterClosed ==
    \A s \in Sessions : afterClosed[s].writes = 0 /\ afterClosed[s].events = 0

\* C3 as amended: once the closed flag of a session is set, its Writer
\* completes at most one more write and its Event Loop dispatches at most one
\* more event (the flag is read at the head of each loop turn only).
C3_AtMostOneAfterClosed ==
    \A s \in Sessions : afterClosed[s].writes <= 1 /\ afterClosed[s].events <= 1

C3_OneMoreOfEach == afterClosed[1].writes = 1 /\ afterClosed[1].events = 1

----------------------------------------------------------------------------
\* The shutdown of a session under fair scheduling: one session with its
\* tasks, the peer's PONGs, the clock and the routine sweep.  A step a task
\* can take is taken in the end: a queue send, a queue receive, the end of a
\* transport write, the sends of a sweep, the erase after join3.  Nothing
\* makes the peer send, the transport fail, the sweep run or the clock move.

\* The clock moves after the peer's PONG and before the first sweep: the
\* order in which a heartbeat timeout arises.
LateTick == budget.remote = 0 /\ budget.sweeps = MaxSweeps /\ Tick(LongTick)

InitLive == InitWith(Calls(MaxTicks, MaxSweeps, 0, FewRemote, 0), FALSE)

NextLive ==
    \/ \E channel \in Channels : StartSession(1, channel, 0)
    \/ ReaderTop(1) \/ ReaderFail(1) \/ ReaderDrop(1) \/ ReaderSend(1)
    \/ ReaderRead(1, new_pong_event(0, TRUE))
    \/ ReaderShutdown(1) \/ ReaderEmpty(1)
    \/ ELoopTop(1) \/ ELoopRecv(1) \/ ELoopSend(1) \/ ELoopLast(1)
    \/ WriterTop(1) \/ WriterRecv(1) \/ WriterFail(1) \/ WriterShutdown(1)
    \/ WriterWrite(1, VLen(vbuf[1]))
    \/ SweepLock \/ SweepSend \/ SweepDone
    \/ LateTick
    \/ JoinErase(1)

Fairness ==
    /\ WF_vars(ReaderTop(1)) /\ WF_vars(ReaderDrop(1)) /\ WF_vars(ReaderSend(1))
    /\ WF_vars(ReaderShutdown(1)) /\ WF_vars(ReaderEmpty(1))
    /\ WF_vars(ELoopTop(1)) /\ WF_vars(ELoopRecv(1)) /\ WF_vars(ELoopSend(1))
    /\ WF_vars(ELoopLast(1))
    /\ WF_vars(WriterTop(1)) /\ WF_vars(WriterRecv(1)) /\ WF_vars(WriterShutdown(1))
    /\ WF_vars(WriterWrite(1, VLen(vbuf[1])) \/ WriterFail(1))
    /\ WF_vars(SweepSend) /\ WF_vars(SweepDone)
    /\ WF_vars(JoinErase(1))

SpecLive == InitLive /\ [][NextLive]_vars /\ Fairness

Registered(s) ==
    \/ \E c \in DOMAIN channels :
            \E i \in 1..Len(channels[c].sessions) : channels[c].sessions[i] = s
    \/ \E k \in 1..Len(retired) : retired[k] = s

AnyTaskDone(s) == pcR[s] = "done" \/ pcE[s] = "done" \/ pcW[s] = "done"
AllTasksDone(s) == pcR[s] = "done" /\ pcE[s] = "done" /\ pcW[s] = "done"
ShutdownSwept(s) ==
    \E k \in 1..Len(actions) : actions[k].to = s /\ actions[k].ev.flags = "SHUTDOWN"

----------------------------------------------------------------------------
\* report_update_window beside one session that starts, runs and shuts down.

InitReport == InitWith(Calls(0, 0, 0, 0, MaxReports), FALSE)

NextReport ==
    \/ \E channel \in Channels : StartSession(1, channel, 0)
    \/ ReaderTop(1) \/ ReaderFail(1) \/ ReaderDrop(1)
    \/ ReaderShutdown(1) \/ ReaderEmpty(1)
    \/ ELoopTop(1) \/ ELoopRecv(1) \/ ELoopSend(1) \/ ELoopLast(1)
    \/ WriterTop(1) \/ WriterRecv(1) \/ WriterFail(1) \/ WriterShutdown(1)
    \/ WriterWrite(1, VLen(vbuf[1]))
    \/ \E channel \in Channels, session_id \in Sessions :
          ReportPoll(channel, session_id, 1, U32Of(1000))
    \/ ReportTrySend
    \/ JoinErase(1)

SpecReport == InitReport /\ [][NextReport]_vars

Returned == ruw.pc = "idle" /\ ruw.ret # "none"

\* C4 as stated: report_update_window returns true when the event was
\* enqueued or no session of that id is in the channel's slots, and false
\* only when the queue was ready and the try_send then failed.
C4_FalseOnlyAfterFailedTrySend ==
    Returned =>
        /\ (ruw.sent \/ ~ruw.found) => ruw.ret = "true"
        /\ ruw.ret = "false" => (ruw.ready /\ ~ruw.sent)

\* C4 as amended: it returns false exactly when the session is in the
\* channel's slots and its queue did not report ready capacity; it returns
\* true when the event was enqueued, when no such session is in the slots,
\* and also when the queue was ready and the try_send then failed.
C4_FalseExactlyWhenNotReady ==
    Returned =>
        /\ ruw.ret \in {"true", "false"}
        /\ ruw.ret = "false" <=> (ruw.found /\ ~ruw.ready)
        /\ ruw.sent => (ruw.found /\ ruw.ready)

C4_TrueAfterFailedTrySend ==
    Returned /\ ruw.found /\ ruw.ready /\ ~ruw.sent /\ ruw.ret = "true"

----------------------------------------------------------------------------
\* The heartbeat: one session, the peer's PONG, the clock, the routine sweep
\* and the Event Loop; the Reader may fail, which closes the session.

InitBeat == InitWith(Calls(MaxTicks, MaxSweeps, 0, FewRemote, 0), FALSE)

NextBeat ==
    \/ \E channel \in Channels : StartSession(1, channel, 0)
    \/ ReaderTop(1) \/ ReaderFail(1) \/ ReaderSend(1)
    \/ ReaderRead(1, new_pong_event(0, TRUE))
    \/ ELoopTop(1) \/ ELoopRecv(1) \/ ELoopSend(1) \/ ELoopLast(1)
    \/ SweepLock \/ SweepSend \/ SweepDone
    \/ Tick(LongTick)

SpecBeat == InitBeat /\ [][NextBeat]_vars

InSlot(s) ==
    \E c \in DOMAIN channels :
        \E i \in 1..Len(channels[c].sessions) : channels[c].sessions[i] = s
InBucket(s) == \E k \in 1..Len(retired) : retired[k] = s
HeartbeatLate(s) == ping_pong_gap(state[s]) < HeartbeatGap

\* The locked section of a sweep retires every session of a slot whose
\* heartbeat is late.
SweepRetiresLate ==
    (pcS = "idle" /\ pcS' = "dispatch") =>
        \A s \in Sessions :
            (InSlot(s) /\ HeartbeatLate(s)) =>
                /\ state'[s].retired
                /\ ~InSlot(s)'
                /\ InBucket(s)'
                /\ ShutdownSwept(s)'

\* The sweep is sending the SHUTDOWN it collected for s.
ShutdownSendStep(s) ==
    /\ pcS = "dispatch" /\ actions # <<>> /\ actions' = Tail(actions)
    /\ Head(actions).to = s /\ Head(actions).ev.flags = "SHUTDOWN"

ShutdownEnqueued(s) ==
    event_q'[s].items = Append(event_q[s].items, new_shutdown_event(0, FALSE))

\* C7 as stated: a sweep that finds a session in a slot with a ping_pong_gap
\* below -60 sets its retired flag, empties its slot, appends it to the
\* retired bucket and enqueues a SHUTDOWN event for it.
C7_LateIsRetiredAndShutDown ==
    [][/\ SweepRetiresLate
       /\ \A s \in Sessions : ShutdownSendStep(s) => ShutdownEnqueued(s)]_vars

\* C7 as amended: the same, but the SHUTDOWN is enqueued unless the event
\* queue of the session is already closed (its Event Loop has left).
C7_LateIsRetiredAndSentShutdown ==
    [][/\ SweepRetiresLate
       /\ \A s \in Sessions :
             ShutdownSendStep(s) =>
                 IF event_q[s].closed THEN event_q'[s] = event_q[s]
                 ELSE ShutdownEnqueued(s)]_vars

C7_RetiredWithShutdownQueued ==
    /\ state[1].retired /\ HeartbeatLate(1) /\ ~InSlot(1) /\ InBucket(1)
    /\ \E k \in 1..Len(event_q[1].items) : event_q[1].items[k].flags = "SHUTDOWN"

----------------------------------------------------------------------------
\* The age check of the sweep alone: a client session of max_alive_secs M
\* that is swept once a second, each sweep drawing its own jitter.

\* max_alive_secs of the sessions followed.
AgedAlives == {1, 10, 59, 60, 100}

InitAge == InitWith(Calls(0, 0, 0, 0, 0), FALSE)

\* The session is born.
AgeStart(M) ==
    /\ aging.M = 0
    /\ aging' = [M |-> M, age |-> 0, active |-> TRUE]
    /\ UNCHANGED <<regVars, sessVars, state, queueVars, loopVars, readerVars,
                   writerVars, sweepVars, cs, ruw, now, budget, afterClosed>>

\* One second later the sweep compares the age with M + rand_inc, and takes
\* the session out of its slot when the age is above.
AgeSweep ==
    /\ aging.active
    /\ aging.age < MaxAge
    /\ \E expired \in {AgeExpired(aging.M, aging.age + 1, j) :
                           j \in JitterLow..(JitterHigh - 1)} :
          aging' = [aging EXCEPT !.age = @ + 1, !.active = ~expired]
    /\ UNCHANGED <<regVars, sessVars, state, queueVars, loopVars, readerVars,
                   writerVars, sweepVars, cs, ruw, now, budget, afterClosed>>

NextAge ==
    \/ \E M \in AgedAlives : AgeStart(M)
    \/ AgeSweep

SpecAge == InitAge /\ [][NextAge]_vars

\* C8: a session of max_alive_secs M > 0 that is swept every second leaves
\* its slot for age at an age A with M - 60 <= A < M + 60, whatever the
\* jitters: it is not retired before M - 60, and it is not active any more
\* after the sweep at age M + 60.
C8_AgeWindow ==
    aging.M > 0 =>
        /\ ~aging.active => (aging.M - 60 <= aging.age /\ aging.age < aging.M + 60)
        /\ aging.active => aging.age < aging.M + 60

----------------------------------------------------------------------------
\* The stream table: one session, create_stream callers, the peer's SYNs
\* and WIN_UPDATEs, report_update_window, the Reader and the Event Loop.

\* Stream ids and window deltas the peer sends; the last delta is near the
\* top of u32.
PeerIds == {1, 2}
PeerDeltas == {U32Of(1000), U32Of(2000), <<65535, 65000>>}
TableWire ==
    {[Ev("SYN", id, TRUE) EXCEPT !.body = "req"] : id \in PeerIds}
    \cup {new_window_update_event(id, d, TRUE) : id \in PeerIds, d \in PeerDeltas}

InitTable == InitWith(Calls(0, 0, MaxCreate, MaxRemote, FewReports), FALSE)

NextTable ==
    \/ \E channel \in Channels : StartSession(1, channel, 0)
    \/ \E channel \in Channels : CreateLock(1, channel)
    \/ CreateSend(1)
    \/ ReaderTop(1) \/ ReaderSend(1)
    \/ \E ev \in TableWire : ReaderRead(1, ev)
    \/ ELoopTop(1) \/ ELoopRecv(1) \/ ELoopSend(1)
    \/ ReportPoll(chan[1], 1, 1, U32Of(1000))
    \/ ReportTrySend

SpecTable == InitTable /\ [][NextTable]_vars

Odd(n) == n % 2 = 1
OwnParity(s, id) == IF chan[s] = "" THEN ~Odd(id) ELSE Odd(id)

\* C9 as stated: the ids of the stream table of a session are all odd when
\* the session is client-side and all even when it is server-side.  (The
\* ids of a table, being its keys, are pairwise distinct.)
C9_TableParity ==
    \A s \in Sessions : \A id \in DOMAIN streams[s] : OwnParity(s, id)

\* C9 as amended: the ids of the streams a session made itself
\* (create_stream), pending or in the table, are odd when it is client-side
\* and even when it is server-side, and no pending id is listed twice or is
\* at or above the seed; the ids put in by remote SYNs are the peer's.
C9_LocalParity ==
    \A s \in Sessions :
        /\ \A id \in DOMAIN streams[s] :
               streams[s][id].origin = "local" => (OwnParity(s, id) /\ id < stream_id_seed[s])
        /\ \A k \in 1..Len(pendding_streams[s]) :
               /\ OwnParity(s, pendding_streams[s][k])
               /\ pendding_streams[s][k] < stream_id_seed[s]
               /\ \A l \in 1..Len(pendding_streams[s]) :
                      k # l => pendding_streams[s][k] # pendding_streams[s][l]

C9_OwnAndPeerIds ==
    \E i, j \in DOMAIN streams[1] :
        /\ streams[1][i].origin = "local" /\ streams[1][j].origin = "remote"
        /\ OwnParity(1, i) /\ ~OwnParity(1, j)

\* The Event Loop of s is dispatching a WIN_UPDATE.
WinUpdateStep(s) ==
    /\ pcE[s] = "recv" /\ pcE'[s] # "recv"
    /\ Head(event_q[s].items).flags = "WIN_UPDATE"

\* The sum of two u32 at full width.
Plus(a, b) == <<a[1] + b[1] + ((a[2] + b[2]) \div 65536), (a[2] + b[2]) % 65536>>
Capped(n) == IF n[1] > 65535 THEN U32Max ELSE n

\* A remote WIN_UPDATE for a stream of the table changes the window of that
\* stream to grown(old window, delta) and nothing else of the table; any
\* other WIN_UPDATE changes nothing of the table.
WindowGrows(s, grown(_, _)) ==
    LET ev == Head(event_q[s].items)
        id == ev.stream_id
    IN  IF ev.remote /\ id \in DOMAIN streams[s]
        THEN streams'[s] = [streams[s] EXCEPT
                               ![id].send_window = grown(streams[s][id].send_window, ev.len)]
        ELSE streams'[s] = streams[s]

----------------------------------------------------------------------------
\* The registry: sessions that start, are swept, shut down and are erased,
\* and create_stream.  The process has run before: the group of channel "a"
\* may be there with slots that earlier sessions left empty, and with a
\* cursor that earlier calls of create_stream advanced.

\* The cursor after 2^32 - 2 fetch_adds.
LateCursor == <<65535, 65534>>
OldGroups ==
    {NoChannels}
    \cup {"a" :> [sessions |-> <<None, None, None>>, cursor |-> LateCursor]}

\* max_alive_secs of the sessions: with it a sweep after LongTick retires a
\* session or keeps it, as the jitter falls.
RegMaxAlive == 100

\* The clock moves once every session has started.
AllStarted == \A s \in Sessions : phase[s] # "unborn"

InitReg ==
    \E cmap \in OldGroups : InitFrom(cmap, Calls(MaxTicks, FewSweeps, FewCreate, 0, 0), FALSE)

NextReg ==
    \/ \E s \in Sessions : StartSession(s, "a", RegMaxAlive)
    \/ ReaderTop(1)
    \/ ReaderFail(1)
    \/ ReaderDrop(1)
    \/ ReaderShutdown(1)
    \/ ReaderEmpty(1)
    \/ ELoopTop(1)
    \/ ELoopRecv(1)
    \/ ELoopSend(1)
    \/ ELoopLast(1)
    \/ WriterTop(1)
    \/ WriterRecv(1)
    \/ WriterWrite(1, VLen(vbuf[1]))
    \/ WriterShutdown(1)
    \/ JoinErase(1)
    \/ SweepLock \/ SweepSend \/ SweepDone
    \/ CreateLock(1, "a") \/ CreateSend(1)
    \/ AllStarted /\ Tick(LongTick)

SpecReg == InitReg /\ [][NextReg]_vars

\* The occupied slots of a group, and an id held by one of them.
Occupied(group) == SelectSeq(group.sessions, LAMBDA x : x # None)
InSeq(seq, x) == \E i \in 1..Len(seq) : seq[i] = x

\* The step of create_stream's locked section.
CreateStep == budget'.creates # budget.creates

\* C5: create_stream(channel, ..) returns "no channel found." exactly when the
\* channel has no group or every slot of its group is empty; otherwise it goes
\* on with a stream of one session that occupies a slot of the channel, the
\* stream pushed to that session's pendding_streams and only that session's
\* stream_id_seed advanced.
C5_NoChannelFoundExactlyWhenEmpty ==
    [][CreateStep =>
          LET empty == "a" \notin DOMAIN channels \/ Occupied(channels["a"]) = <<>>
              sid == cs'[1].sid
          IN  /\ (cs'[1].ret = "no channel found.") <=> empty
              /\ ~empty =>
                    /\ cs'[1].pc = "send"
                    /\ InSeq(channels["a"].sessions, sid) /\ sid # None
                    /\ pendding_streams'[sid] =
                          Append(pendding_streams[sid], cs'[1].ev.stream_id)
                    /\ stream_id_seed'[sid] # stream_id_seed[sid]
                    /\ \A t \in Sessions \ {sid} :
                          /\ stream_id_seed'[t] = stream_id_seed[t]
                          /\ pendding_streams'[t] = pendding_streams[t]]_vars

\* C6: sessions have distinct ids; through every store, erase and sweep no
\* session id occurs more than once across the occupied slots of a channel's
\* group together with the retired bucket.
C6_NoDuplicateIds ==
    \A c \in DOMAIN channels :
        LET ids == Occupied(channels[c]) \o retired
        IN  \A i, j \in 1..Len(ids) : i # j => ids[i] # ids[j]

\* A sweep has retired one session and kept the other in its slot, and the
\* first session has been stored and erased.
C6_RetiredSlottedErased ==
    /\ phase[1] = "ended"
    /\ retired = <<2>>
    /\ channels["a"].sessions # <<>> /\ Occupied(channels["a"]) = <<>>

----------------------------------------------------------------------------
\* The bytes on the transport, in the runs of one session with its three
\* tasks (Spec): the sweep's PING on a client session and the PONGs that
\* answer the peer's PINGs are different frames, gathered and written whole
\* or ShortWrite bytes at a time.

\* C11: the bytes the Writer has written are a prefix of the non-empty
\* buffers the Event Loop handed to the byte queue, in the order it handed
\* them: every write takes the bytes at the front of what is handed and not
\* written yet.
C11_WritesInEnqueueOrder == \A s \in Sessions : afterClosed[s].inOrder

\* A short write has cut the first of two different frames gathered into the
\* accumulator.
C11_ShortWriteOfGathered ==
    /\ Len(vbuf[1]) = 2
    /\ vbuf[1][1].size = FrameLen(new_ping_event(0, FALSE)) - ShortWrite
    /\ vbuf[1][1].flags # vbuf[1][2].flags
    /\ afterClosed[1].unwritten # vbuf[1]

----------------------------------------------------------------------------
\* A retired session: one client session that a sweep retires for its age,
\* create_stream, and the peer's SYNs.

RetireWire == {[Ev("SYN", id, TRUE) EXCEPT !.body = "req"] : id \in PeerIds}

InitRetire == InitWith(Calls(MaxTicks, FewSweeps, FewCreate, FewRemote, 0), FALSE)

NextRetire ==
    \/ StartSession(1, "a", RegMaxAlive)
    \/ CreateLock(1, "a") \/ CreateSend(1)
    \/ ReaderTop(1) \/ ReaderSend(1)
    \/ \E ev \in RetireWire : ReaderRead(1, ev)
    \/ ELoopTop(1) \/ ELoopRecv(1) \/ ELoopSend(1) \/ ELoopLast(1)
    \/ SweepLock \/ SweepSend \/ SweepDone
    \/ Tick(LongTick)

SpecRetire == InitRetire /\ [][NextRetire]_vars

\* C12: once the retired flag of a session is set, create_stream does not
\* select the session and its Event Loop adds no entry to its stream table,
\* from a local SYN or from a remote SYN.
C12_RetiredAcceptsNoStream ==
    [][\A s \in Sessions :
          state[s].retired =>
              /\ DOMAIN streams'[s] \subseteq DOMAIN streams[s]
              /\ CreateStep => cs'[1].sid # s]_vars

----------------------------------------------------------------------------
\* The FIN of a stream: one client session, a stream made by create_stream
\* and closed by its holder, and a sweep that may retire the session.

FewLocal == 1

\* The stream create_stream made is in the table of a running Event Loop.
OwnStreamOpen(s, id) == id \in DOMAIN streams[s] /\ streams[s][id].origin = "local"

InitFin == InitWith(WithLocal(Calls(MaxTicks, FewSweeps, FewCreate, 0, 0), FewLocal), FALSE)

NextFin ==
    \/ StartSession(1, "a", RegMaxAlive)
    \/ CreateLock(1, "a") \/ CreateSend(1)
    \/ \E id \in DOMAIN streams[1] : OwnStreamOpen(1, id) /\ StreamSend(1, Ev("FIN", id, FALSE))
    \/ ELoopTop(1) \/ ELoopRecv(1) \/ ELoopSend(1) \/ ELoopLast(1)
    \/ WriterTop(1) \/ WriterRecv(1) \/ WriterWrite(1, VLen(vbuf[1])) \/ WriterShutdown(1)
    \/ SweepLock \/ SweepSend \/ SweepDone
    \/ Tick(LongTick)

SpecFin == InitFin /\ [][NextFin]_vars

\* The Event Loop of s consumes a locally produced FIN.
LocalFinStep(s) ==
    /\ pcE[s] = "recv" /\ pcE'[s] # "recv"
    /\ event_q[s].items # <<>>
    /\ Head(event_q[s].items).flags = "FIN" /\ ~Head(event_q[s].items).remote

\* C13: whenever the Event Loop consumes a locally produced FIN of a stream,
\* it goes on to hand a FIN frame with that stream id to the Writer, also
\* when the FIN empties the table of a retired session.
C13_LocalFinIsHandedOn ==
    [][\A s \in Sessions :
          LocalFinStep(s) =>
              /\ pcE'[s] = "send"
              /\ eEv'[s].flags = "FIN"
              /\ eEv'[s].stream_id = Head(event_q[s].items).stream_id]_vars

----------------------------------------------------------------------------
\* The internal events: one client session with its tasks, the sweep and the
\* failing transport as the makers of ROUTINE and SHUTDOWN events, and a
\* peer that sends frames with the SHUTDOWN and the ROUTINE flag.

InternalFlags == {"SHUTDOWN", "ROUTINE"}
InternalWire == {Ev(f, 0, TRUE) : f \in InternalFlags}

InitWire == InitAll(NoChannels, Calls(MaxTicks, FewSweeps, 0, FewRemote, 0), FALSE, TRUE)

NextWire ==
    \/ StartSession(1, "a", RegMaxAlive)
    \/ ReaderTop(1) \/ ReaderFail(1) \/ ReaderSend(1)
    \/ \E ev \in InternalWire : ReaderRead(1, ev)
    \/ ReaderShutdown(1) \/ ReaderEmpty(1)
    \/ ELoopTop(1) \/ ELoopRecv(1) \/ ELoopSend(1) \/ ELoopLast(1)
    \/ WriterTop(1) \/ WriterRecv(1) \/ WriterWrite(1, VLen(vbuf[1])) \/ WriterShutdown(1)
    \/ SweepLock \/ SweepSend \/ SweepDone
    \/ Tick(LongTick)

SpecWire == InitWire /\ [][NextWire]_vars

\* No frame for the wire carries an internal flag: not in the byte queue, not
\* in the accumulator, not in the hands of send_local_event.
NoInternalFrames(s) ==
    /\ \A i \in 1..Len(send_q[s].items) : send_q[s].items[i].flags \notin InternalFlags
    /\ \A i \in 1..Len(vbuf[s]) : vbuf[s][i].flags \notin InternalFlags
    /\ pcE[s] = "send" => eEv[s].flags \notin InternalFlags

\* The Event Loop of s consumes a frame from the wire with an internal flag.
WireInternalStep(s) ==
    /\ pcE[s] = "recv" /\ pcE'[s] # "recv"
    /\ event_q[s].items # <<>>
    /\ Head(event_q[s].items).remote
    /\ Head(event_q[s].items).flags \in InternalFlags

\* C14: the Event Loop hands no SHUTDOWN and no ROUTINE event to the Writer,
\* and a frame from the wire with the SHUTDOWN or the ROUTINE flag does not
\* end the Event Loop and does not run the routine tick: the loop goes back
\* to its head with the session state, the stream table and the byte queue
\* as they were.
C14_InternalEventsStayInside ==
    [][\A s \in Sessions :
          /\ NoInternalFrames(s)'
          /\ WireInternalStep(s) =>
                /\ pcE'[s] = "top"
                /\ state'[s] = state[s]
                /\ streams'[s] = streams[s]
                /\ send_q'[s] = send_q[s]]_vars

\* The loop has dispatched a ROUTINE frame from the wire while the session
\* was retired with an empty table, and it goes on.
C14_WireRoutineOnRetired ==
    /\ afterClosed[1].last.ev = Ev("ROUTINE", 0, TRUE)
    /\ afterClosed[1].last.retired /\ afterClosed[1].last.ids = {}
    /\ pcE[1] = "top" /\ ~state[1].closed

----------------------------------------------------------------------------
\* Frames the Event Loop cannot use: one server session, its Reader and its
\* Event Loop, and a peer that opens stream 1 and sends DATA for it, DATA for
\* a stream that is not there, a SYN whose body does not decode and a frame
\* with an unknown flag.

ManyRemote == 3

UnknownFlag == "UNKNOWN"
GoodSyn == [Ev("SYN", 1, TRUE) EXCEPT !.body = "req"]
BadSyn == [Ev("SYN", 2, TRUE) EXCEPT !.body = "garbage"]
DropWire == {GoodSyn, BadSyn, Ev(UnknownFlag, 1, TRUE), Ev("DATA", 1, TRUE), Ev("DATA", 2, TRUE)}

InitDrop == InitAll(NoChannels, Calls(0, 0, 0, ManyRemote, 0), FALSE, TRUE)

NextDrop ==
    \/ StartSession(1, "", 0)
    \/ ReaderTop(1) \/ ReaderSend(1)
    \/ \E ev \in DropWire : ReaderRead(1, ev)
    \/ ELoopTop(1) \/ ELoopRecv(1)

SpecDrop == InitDrop /\ [][NextDrop]_vars

\* A remote event that is to be dropped, given the stream table.
Unusable(ev, table) ==
    /\ ev.remote
    /\ \/ ev.flags \notin {"SYN", "FIN", "DATA", "PING", "PONG", "WIN_UPDATE"}
       \/ ev.flags = "SYN" /\ ev.body # "req"
       \/ ev.flags = "DATA" /\ ev.stream_id \notin DOMAIN table

\* The Event Loop of s consumes the event at the head of its queue.
ConsumeStep(s) == pcE[s] = "recv" /\ pcE'[s] # "recv" /\ event_q[s].items # <<>>

\* C15: a remote event with an unknown flag, a remote SYN whose body does not
\* decode and a remote DATA for a stream id that is not in the table are
\* dropped: the stream table, the session state with its closed and retired
\* flags and the byte queue stay as they are and the loop goes back to its
\* head; and every remote DATA for a stream in the table is handed to that
\* stream, whatever was dropped before.
C15_UnusableFramesAreDropped ==
    [][\A s \in Sessions :
          ConsumeStep(s) =>
            LET ev == Head(event_q[s].items)
            IN  /\ Unusable(ev, streams[s]) =>
                      /\ streams'[s] = streams[s]
                      /\ state'[s] = state[s]
                      /\ send_q'[s] = send_q[s]
                      /\ pcE'[s] = "top"
                /\ (ev.remote /\ ev.flags = "DATA" /\ ev.stream_id \in DOMAIN streams[s]) =>
                      /\ streams'[s] = [streams[s] EXCEPT ![ev.stream_id].offered = @ + 1]
                      /\ pcE'[s] = "top"]_vars

\* Stream 1 was opened, a frame with the unknown flag was dropped, and the
\* DATA that came next was handed to stream 1.
C15_DataAfterUnknownFlag ==
    /\ afterClosed[1].last.prev = Ev(UnknownFlag, 1, TRUE)
    /\ afterClosed[1].last.ev = Ev("DATA", 1, TRUE)
    /\ 1 \in DOMAIN streams[1] /\ streams[1][1].offered = 1
    /\ ~state[1].closed

----------------------------------------------------------------------------
\* The gather loop of the Writer: one session, its streams that send
\* WIN_UPDATE events (frames of 20 bytes) and DATA events (frames of 30
\* bytes), its Event Loop, its Writer, and a Reader whose transport ends.

ManyLocal == 4

StreamEvents == {new_window_update_event(1, U32Zero, FALSE), Ev("DATA", 1, FALSE)}

InitGather == InitWith(WithLocal(Calls(0, 0, 0, 0, 0), ManyLocal), FALSE)

NextGather ==
    \/ StartSession(1, "", 0)
    \/ \E ev \in StreamEvents : StreamSend(1, ev)
    \/ ReaderTop(1) \/ ReaderFail(1) \/ ReaderShutdown(1) \/ ReaderEmpty(1)
    \/ ELoopTop(1) \/ ELoopRecv(1) \/ ELoopSend(1) \/ ELoopLast(1)
    \/ WriterTop(1) \/ WriterRecv(1) \/ WriterFail(1) \/ WriterShutdown(1)
    \/ \E n \in WriteSizes(1) : WriterWrite(1, n)

SpecGather == InitGather /\ [][NextGather]_vars

\* The Writer of s runs its gather loop: after the buffer it awaited, or with
\* the bytes a short write left.
GatherStep(s) ==
    /\ pcW'[s] # pcW[s]
    /\ \/ pcW[s] = "recv" /\ send_q[s].items # <<>> /\ Head(send_q[s].items).size > 0
       \/ pcW[s] = "top" /\ ~state[s].closed /\ vbuf[s] # <<>>

\* The buffers the gather loop starts from: the accumulator, then the queue.
AtHand(s) == (IF pcW[s] = "recv" THEN <<>> ELSE vbuf[s]) \o send_q[s].items
\* The buffers the accumulator holds before the loop takes its first.
HeldFirst(s) == IF pcW[s] = "recv" THEN 1 ELSE Len(vbuf[s])

\* The gather loop went on to the write, having taken buffers in queue order
\* while it held fewer than 60 bytes, up to the first that brought it to 60
\* or more, or up to the end of the queue.
GatheredToThreshold(s) ==
    /\ pcW'[s] = "write"
    /\ vbuf'[s] \o send_q'[s].items = AtHand(s)
    /\ VLen(vbuf'[s]) >= GatherThreshold \/ send_q'[s].items = <<>>
    /\ Len(vbuf'[s]) > HeldFirst(s) =>
          VLen(SubSeq(vbuf'[s], 1, Len(vbuf'[s]) - 1)) < GatherThreshold

\* The gather loop took an empty buffer while it held fewer than 60 bytes,
\* and the Writer left its loop with the bytes it held unwritten.
GatheredToEndMark(s) ==
    /\ pcW'[s] = "shutdown"
    /\ vbuf'[s] \o <<EmptyBuf>> \o send_q'[s].items = AtHand(s)
    /\ \A i \in 1..Len(vbuf'[s]) : vbuf'[s][i].size > 0
    /\ VLen(vbuf'[s]) < GatherThreshold

\* C16 as stated: the Writer keeps taking queued buffers without blocking
\* while its accumulator holds fewer than 60 bytes and stops as soon as it
\* holds 60 or more or the queue is empty, and then writes: buffers of 20, 20
\* and 30 bytes queued together go into one write of 70 bytes.
C16_GathersToThreshold ==
    [][\A s \in Sessions : GatherStep(s) => GatheredToThreshold(s)]_vars

\* C16 as amended: the same, or the loop takes an empty buffer (the end mark
\* of the Reader or the Event Loop) while it holds fewer than 60 bytes, and the
\* Writer then leaves without writing what it gathered.
C16_GathersToThresholdOrEndMark ==
    [][\A s \in Sessions :
          GatherStep(s) => GatheredToThreshold(s) \/ GatheredToEndMark(s)]_vars

\* Frames of 20, 20 and 30 bytes are in the accumulator for one write.
C16_TwentyTwentyThirty ==
    /\ pcW[1] = "write"
    /\ vbuf[1] = <<Frame(new_window_update_event(1, U32Zero, FALSE)),
                   Frame(new_window_update_event(1, U32Zero, FALSE)),
                   Frame(Ev("DATA", 1, FALSE))>>
    /\ VLen(vbuf[1]) = 70

----------------------------------------------------------------------------
\* The closing conditions of FIN and ROUTINE: one client session with or
\* without an age limit, a stream made by create_stream, the FIN its holder
\* sends and the FIN and PONG the peer sends, a sweep, a clock that moves by
\* the idle limit or by a second less, and a transport that may end under
\* the Reader.

NearIdleTick == 299

CloseWire == {Ev("FIN", 1, TRUE), new_pong_event(0, TRUE)}

InitClose ==
    InitAll(NoChannels, WithLocal(Calls(MaxTicks, FewSweeps, FewCreate, FewRemote, 0), FewLocal),
            FALSE, TRUE)

NextClose ==
    \/ \E M \in MaxAlives : StartSession(1, "a", M)
    \/ CreateLock(1, "a") \/ CreateSend(1)
    \/ StreamSend(1, Ev("FIN", 1, FALSE))
    \/ ReaderTop(1) \/ ReaderFail(1) \/ ReaderSend(1)
    \/ \E ev \in CloseWire : ReaderRead(1, ev)
    \/ ELoopTop(1) \/ ELoopRecv(1) \/ ELoopSend(1) \/ ELoopLast(1)
    \/ SweepLock \/ SweepSend \/ SweepDone
    \/ \E d \in {NearIdleTick, IdleCloseSecs} : phase[1] = "running" /\ Tick(d)

SpecClose == InitClose /\ [][NextClose]_vars

\* The I/O idle time of s: 0 when no wire I/O ever happened.
IdleTime(s) ==
    IF state[s].io_active_unix_secs = 0 THEN 0 ELSE now - state[s].io_active_unix_secs

\* The closing condition of the event ev for s: for a FIN, on the table
\* without the stream of the FIN.
ClosingCondition(s, ev) ==
    IF ev.flags = "FIN"
    THEN state[s].retired /\ DOMAIN streams[s] \ {ev.stream_id} = {}
    ELSE (state[s].retired /\ DOMAIN streams[s] = {}) \/ IdleTime(s) >= IdleCloseSecs

\* The events with a closing condition: a FIN, local or remote, and the
\* ROUTINE of a sweep.
ClosingEvent(ev) == ev.flags = "FIN" \/ (ev.flags = "ROUTINE" /\ ~ev.remote)

\* What a FIN or a ROUTINE does to the table, and that the loop sets closed
\* and leaves when the closing condition holds.
ClosesWhenDue(s, ev) ==
    /\ DOMAIN streams'[s] = IF ev.flags = "FIN" THEN DOMAIN streams[s] \ {ev.stream_id}
                            ELSE DOMAIN streams[s]
    /\ ~ClosingCondition(s, ev) =>
          \A k \in DOMAIN streams'[s] : streams'[s][k] = streams[s][k]
    /\ ClosingCondition(s, ev) => state'[s].closed /\ pcE'[s] = "last"

\* C17 as stated: a FIN or a ROUTINE makes the Event Loop set closed and
\* leave exactly when its closing condition holds; otherwise the loop goes on
\* with closed unset.
C17_ClosedExactlyWhenDue ==
    [][\A s \in Sessions :
          (ConsumeStep(s) /\ ClosingEvent(Head(event_q[s].items))) =>
            LET ev == Head(event_q[s].items)
            IN  /\ ClosesWhenDue(s, ev)
                /\ ~ClosingCondition(s, ev) => ~state'[s].closed /\ pcE'[s] # "last"]_vars

\* C17 as amended: the same, but when the closing condition does not hold
\* the event leaves closed as it found it, set or unset, and the loop goes to
\* send_local_event with a local FIN and back to its head otherwise.
C17_ClosedSetExactlyWhenDue ==
    [][\A s \in Sessions :
          (ConsumeStep(s) /\ ClosingEvent(Head(event_q[s].items))) =>
            LET ev == Head(event_q[s].items)
            IN  /\ ClosesWhenDue(s, ev)
                /\ ~ClosingCondition(s, ev) =>
                      /\ state'[s].closed = state[s].closed
                      /\ pcE'[s] = IF ev.flags = "FIN" /\ ~ev.remote THEN "send" ELSE "top"]_vars

\* A ROUTINE has closed a session that was not retired, at 300 idle seconds.
C17_ClosedAtIdleLimit ==
    /\ afterClosed[1].last.ev = new_routine_event(0)
    /\ ~afterClosed[1].last.retired /\ ~afterClosed[1].last.closed
    /\ afterClosed[1].last.idle = IdleCloseSecs
    /\ state[1].closed /\ pcE[1] = "last"

----------------------------------------------------------------------------
\* The events of a sweep: session 1, client or server, with its Reader and
\* its Event Loop and a peer that sends a PONG; session 2, a client with an
\* age limit; the clock, and two sweeps.

InitSweep == InitWith(Calls(MaxTicks, MaxSweeps, 0, FewRemote, 0), FALSE)

NextSweep ==
    \/ \E channel \in Channels : StartSession(1, channel, 0)
    \/ StartSession(2, "a", RegMaxAlive)
    \/ ReaderTop(1) \/ ReaderFail(1) \/ ReaderSend(1)
    \/ ReaderRead(1, new_pong_event(0, TRUE))
    \/ ELoopTop(1) \/ ELoopRecv(1) \/ ELoopSend(1) \/ ELoopLast(1)
    \/ SweepLock \/ SweepSend \/ SweepDone
    \/ AllStarted /\ Tick(LongTick)

SpecSweep == InitSweep /\ [][NextSweep]_vars

\* The flags of the events a sequence of actions holds for s, in order.
RECURSIVE FlagsFor(_, _)
FlagsFor(acts, s) ==
    IF acts = <<>> THEN <<>>
    ELSE (IF Head(acts).to = s THEN <<Head(acts).ev.flags>> ELSE <<>>)
         \o FlagsFor(Tail(acts), s)

\* What a sweep owes s, as the sweep finds it: a ROUTINE in the bucket; in a
\* slot a SHUTDOWN alone when the heartbeat is late, and otherwise a ROUTINE,
\* after a PING on a client channel, retired for its age in this sweep or not.
Owed(s) ==
    IF InBucket(s) THEN <<"ROUTINE">>
    ELSE IF ~InSlot(s) THEN <<>>
    ELSE IF HeartbeatLate(s) THEN <<"SHUTDOWN">>
    ELSE IF chan[s] # "" THEN <<"PING", "ROUTINE">>
    ELSE <<"ROUTINE">>

\* The locked section of a sweep collects for every session what it is owed,
\* as local events.
SweepCollectsOwed ==
    (pcS = "idle" /\ pcS' = "dispatch") =>
        /\ \A s \in Sessions : FlagsFor(actions', s) = Owed(s)
        /\ \A i \in 1..Len(actions') : ~actions'[i].ev.remote

\* The sweep sends the event at the head of its actions.
SweepSendStep == pcS = "dispatch" /\ actions # <<>> /\ actions' = Tail(actions)

\* C18 as stated: in one sweep a healthy session receives one ROUTINE, after
\* one PING iff its channel is not empty; a session of the retired bucket
\* receives one ROUTINE and no PING; a session the sweep retires for its age
\* receives its ROUTINE once; a session retired for a late heartbeat receives a
\* SHUTDOWN only.
C18_SweepEventsReceived ==
    [][/\ SweepCollectsOwed
       /\ SweepSendStep =>
             event_q'[Head(actions).to].items =
                 Append(event_q[Head(actions).to].items, Head(actions).ev)]_vars

\* C18 as amended: the sweep sends these events, and each is received unless
\* the Event Loop of the session has closed its event queue.
C18_SweepEventsSent ==
    [][/\ SweepCollectsOwed
       /\ SweepSendStep =>
             LET a == Head(actions)
             IN  IF event_q[a.to].closed THEN event_q'[a.to] = event_q[a.to]
                 ELSE event_q'[a.to].items = Append(event_q[a.to].items, a.ev)]_vars

\* The second sweep has collected a SHUTDOWN for session 1, whose heartbeat
\* is late, and a ROUTINE for session 2, which the first sweep retired.
C18_ShutdownAndBucketRoutine ==
    /\ pcS = "dispatch" /\ budget.sweeps = 0
    /\ actions = <<Action(new_shutdown_event(0, FALSE), 1), Action(new_routine_event(0), 2)>>
    /\ retired = <<2, 1>>

----------------------------------------------------------------------------
\* The placement of streams: sessions come to channel "a" and session 1 ends,
\* while the callers create streams.  The group of the channel is new, or it
\* has had three sessions and its cursor is at zero or near the top.

PlaceGroups ==
    OldGroups \cup {"a" :> [sessions |-> <<None, None, None>>, cursor |-> U32Zero]}

InitPlace ==
    \E cmap \in PlaceGroups : InitFrom(cmap, Calls(0, 0, MaxCreate, 0, 0), FALSE)

NextPlace ==
    \/ \E s \in Sessions : StartSession(s, "a", 0)
    \/ ReaderTop(1)
    \/ ReaderFail(1)
    \/ ReaderShutdown(1)
    \/ ReaderEmpty(1)
    \/ ELoopTop(1)
    \/ ELoopRecv(1)
    \/ ELoopSend(1)
    \/ ELoopLast(1)
    \/ WriterTop(1)
    \/ WriterRecv(1)
    \/ WriterWrite(1, VLen(vbuf[1]))
    \/ WriterShutdown(1)
    \/ JoinErase(1)
    \/ \E c \in Callers : CreateLock(c, "a")
    \/ \E c \in Callers : CreateSend(c)

SpecPlace == InitPlace /\ [][NextPlace]_vars

\* The picks of n calls of create_stream, one after the other, on the slots
\* ss from cursor c.
RECURSIVE Placed(_, _, _)
Placed(ss, c, n) ==
    IF n = 0 THEN <<>>
    ELSE LET pick == PickSlot(ss, c, Len(ss))
         IN  <<pick>> \o Placed(ss, pick.cursor, n - 1)

\* The occupied slot that follows slot i in slot order, with wrap-around.
NextOccupied(ss, i) ==
    LET ahead(j) == (j - i - 1) % Len(ss)
    IN  CHOOSE j \in 1..Len(ss) :
            /\ ss[j] # None
            /\ \A h \in 1..Len(ss) : ss[h] # None => ahead(j) <= ahead(h)

\* C19: while the slots of a channel do not change and k >= 1 of them are
\* occupied, k create_stream calls in a row pick k distinct sessions, in slot
\* order with wrap-around, and each call advances the cursor at least once.
C19_RoundRobin ==
    \A channel \in DOMAIN channels :
        LET ss == channels[channel].sessions
            k == Len(Occupied(channels[channel]))
            picks == Placed(ss, channels[channel].cursor, k)
            before(i) == IF i = 1 THEN channels[channel].cursor ELSE picks[i - 1].cursor
        IN  /\ \A i \in 1..k : picks[i].idx # 0 /\ picks[i].cursor # before(i)
            /\ \A i, j \in 1..k : i # j => ss[picks[i].idx] # ss[picks[j].idx]
            /\ \A i \in 1..(k - 1) : picks[i + 1].idx = NextOccupied(ss, picks[i].idx)

----------------------------------------------------------------------------
\* The slots of a group under store, erase and retirement.

\* The active sessions of a channel, as the sessions themselves have it:
\* started there, not ended, not retired.
ActiveIn(channel) ==
    {s \in Sessions : phase[s] = "running" /\ chan[s] = channel /\ ~state[s].retired}

\* active_count is the number of occupied slots, one for each active session
\* of the channel.
ActiveCountIsOccupied ==
    \A channel \in Channels :
        /\ get_channel_session_size(channels, channel) = Cardinality(ActiveIn(channel))
        /\ channel \in DOMAIN channels =>
               get_channel_session_size(channels, channel) = Len(Occupied(channels[channel]))

\* The slots of a channel, none if it has no group.
SlotsOf(cmap, channel) == IF channel \in DOMAIN cmap THEN cmap[channel].sessions ELSE <<>>

\* store_mux_session(chan'[s], s): into the lowest empty slot, or a new one.
StoreStep(s) ==
    (phase[s] = "unborn" /\ phase'[s] = "running") =>
        LET channel == chan'[s]
            old == SlotsOf(channels, channel)
            new == SlotsOf(channels', channel)
            empty == {i \in 1..Len(old) : old[i] = None}
        IN  /\ DOMAIN channels' = DOMAIN channels \cup {channel}
            /\ \A other \in DOMAIN channels \ {channel} : channels'[other] = channels[other]
            /\ channel \in DOMAIN channels =>
                   channels'[channel].cursor = channels[channel].cursor
            /\ IF empty # {}
               THEN \E i \in empty :
                      /\ \A j \in empty : i <= j
                      /\ new = [old EXCEPT ![i] = s]
               ELSE new = Append(old, s)
            /\ retired' = retired
            /\ get_channel_session_size(channels', channel)
                   = get_channel_session_size(channels, channel) + 1

\* erase_mux_session(chan[s], s), and what it does to active_count.
EraseStep(s) ==
    (phase[s] = "running" /\ phase'[s] = "ended") =>
        get_channel_session_size(channels', chan[s])
            = get_channel_session_size(channels, chan[s]) - (IF InSlot(s) THEN 1 ELSE 0)

\* The retirement of s by a sweep, and what it does to active_count.
RetireStep ==
    (pcS = "idle" /\ pcS' = "dispatch") =>
        \A channel \in Channels :
            get_channel_session_size(channels', channel)
                = get_channel_session_size(channels, channel)
                  - Cardinality({s \in ActiveIn(channel) : state'[s].retired})

\* C20: store(channel, session) puts the session into the lowest empty slot
\* of the channel's group, or into a new slot if none is empty (in a new group
\* if the channel has none), and changes no other slot and not the retired
\* bucket; active_count(channel) is the number of occupied slots: one more
\* after a store, one less after the erase of an active session or after its
\* retirement.
C20_StoreFillsLowestEmptySlot ==
    [][/\ ActiveCountIsOccupied /\ ActiveCountIsOccupied'
       /\ \A s \in Sessions : StoreStep(s) /\ EraseStep(s)
       /\ RetireStep]_vars

\* Session 2 is in the first slot of three, which session 1 has left, and
\* session 1 has ended.
C20_StoredInErasedSlot ==
    /\ phase[1] = "ended" /\ phase[2] = "running"
    /\ channels["a"].sessions = <<2, None, None>>

----------------------------------------------------------------------------
\* erase_mux_session on the registries the program reaches.

\* What erase(channel, sid) is to make of the registry: the slot of the
\* channel that holds sid emptied, or else sid taken out of the bucket.
Erased(cmap, bucket, channel, sid) ==
    IF InSeq(SlotsOf(cmap, channel), sid)
    THEN [channels |-> [c \in DOMAIN cmap |->
                          IF c # channel THEN cmap[c]
                          ELSE [cmap[c] EXCEPT !.sessions =
                                   [i \in 1..Len(cmap[c].sessions) |->
                                       IF cmap[c].sessions[i] = sid THEN None
                                       ELSE cmap[c].sessions[i]]]],
          retired |-> bucket]
    ELSE [channels |-> cmap, retired |-> SelectSeq(bucket, LAMBDA x : x # sid)]

\* C21: erase(channel, id) removes the session with that id from the slots of
\* the channel, or else from the retired bucket, and a second call with the
\* same arguments leaves the registry as the first call left it, in every
\* registry the program reaches.
C21_EraseIsIdempotent ==
    \A channel \in Channels, sid \in Sessions :
        LET once == erase_mux_session(channels, retired, channel, sid)
            twice == erase_mux_session(once.channels, once.retired, channel, sid)
        IN  /\ once = Erased(channels, retired, channel, sid)
            /\ twice = once

\* Session 1 was retired and has been erased from the bucket, where session
\* 2 stays.
C21_ErasedFromBucket ==
    /\ phase[1] = "ended" /\ state[1].retired
    /\ retired = <<2>>

----------------------------------------------------------------------------
\* The Writer and io_active_unix_secs: a client session with its three
\* tasks, a peer that sends a PING, a sweep and the clock.

StampWire == {new_ping_event(0, TRUE)}

InitStamp == InitWith(Calls(MaxTicks, FewSweeps, 0, FewRemote, 0), FALSE)

NextStamp ==
    \/ StartSession(1, "a", 0)
    \/ ReaderTop(1) \/ ReaderFail(1) \/ ReaderSend(1)
    \/ \E ev \in StampWire : ReaderRead(1, ev)
    \/ ReaderShutdown(1) \/ ReaderEmpty(1)
    \/ ELoopTop(1) \/ ELoopRecv(1) \/ ELoopSend(1) \/ ELoopLast(1)
    \/ WriterTop(1) \/ WriterRecv(1) \/ WriterFail(1) \/ WriterShutdown(1)
    \/ \E n \in WriteSizes(1) : WriterWrite(1, n)
    \/ SweepLock \/ SweepSend \/ SweepDone
    \/ phase[1] = "running" /\ Tick(LongTick)

SpecStamp == InitStamp /\ [][NextStamp]_vars

\* The steps of the Writer of s: to the write, and from it with Ok(n), n > 0.
WriteBegins(s) == pcW[s] # "write" /\ pcW'[s] = "write"
WriteSucceeds(s) == pcW[s] = "write" /\ pcW'[s] = "top"
WriterSteps(s) == pcW'[s] # pcW[s]
StampChanges(s) == state'[s].io_active_unix_secs # state[s].io_active_unix_secs

----------------------------------------------------------------------------
\* SYNs of the peer for ids the table has: a client session with the streams
\* of create_stream, and a peer that opens streams and sends a window update.

SynWire ==
    {[Ev("SYN", id, TRUE) EXCEPT !.body = "req"] : id \in PeerIds}
    \cup {new_window_update_event(1, U32Of(1000), TRUE)}

InitSyn == InitAll(NoChannels, Calls(0, 0, FewCreate, ManyRemote, 0), FALSE, TRUE)

NextSyn ==
    \/ StartSession(1, "a", 0)
    \/ CreateLock(1, "a")
    \/ CreateSend(1)
    \/ ReaderTop(1) \/ ReaderSend(1)
    \/ \E ev \in SynWire : ReaderRead(1, ev)
    \/ ELoopTop(1) \/ ELoopRecv(1) \/ ELoopSend(1)

SpecSyn == InitSyn /\ [][NextSyn]_vars

\* The Event Loop of s consumes a SYN of the peer for an id of its table.
SynOfKnownId(s) ==
    /\ pcE[s] = "recv" /\ pcE'[s] # "recv"
    /\ Head(event_q[s].items).flags = "SYN" /\ Head(event_q[s].items).remote
    /\ Head(event_q[s].items).stream_id \in DOMAIN streams[s]

\* C23: a SYN of the peer for a stream id the table has never replaces the
\* entry: when the Event Loop has consumed it, the id maps to the stream it
\* mapped to, and every other entry is as it was.
C23_DuplicateSynKeepsEntry ==
    [][\A s \in Sessions : SynOfKnownId(s) => streams'[s] = streams[s]]_vars

\* The peer's SYN for id 1 was the last event dispatched and found id 1 in
\* the table: the stream of create_stream, its window grown by the peer.
C23_SynForOwnStream ==
    /\ afterClosed[1].last.ev.flags = "SYN" /\ afterClosed[1].last.ev.remote
    /\ afterClosed[1].last.ev.stream_id = 1 /\ 1 \in afterClosed[1].last.ids
    /\ 1 \in DOMAIN streams[1]
    /\ streams[1][1].origin = "local" /\ streams[1][1].send_window = U32Of(1000)

----------------------------------------------------------------------------
\* Window reports for a retired session: a client session with an age limit
\* and a stream of create_stream, the clock, the sweep that retires it, and
\* the reports of the stream's reader.

InitDrain == InitWith(Calls(MaxTicks, FewSweeps, FewCreate, 0, FewReports), FALSE)

NextDrain ==
    \/ StartSession(1, "a", RegMaxAlive)
    \/ CreateLock(1, "a")
    \/ CreateSend(1)
    \/ ELoopTop(1) \/ ELoopRecv(1) \/ ELoopSend(1) \/ ELoopLast(1)
    \/ SweepLock \/ SweepSend \/ SweepDone
    \/ phase[1] = "running" /\ Tick(LongTick)
    \/ ReportPoll("a", 1, 1, U32Of(1000))
    \/ ReportTrySend

SpecDrain == InitDrain /\ [][NextDrain]_vars

\* report_update_window is called for stream 1 of session 1, retired and not
\* closed, and the event queue of the session has room.
ReportForRetired ==
    /\ ruw.pc = "idle" /\ budget'.reports # budget.reports
    /\ state[1].retired /\ ~state[1].closed /\ 1 \in DOMAIN streams[1]
    /\ ~event_q[1].closed /\ Len(event_q[1].items) + event_q[1].reserved < EventQueueCap

\* The try_send of a report to a queue that is open.
ReportSendStep == ruw.pc = "try" /\ ruw'.pc = "idle" /\ ~event_q[ruw.to].closed

\* C24: a window update reported for a stream of a session that is retired
\* and not closed goes as a WIN_UPDATE event into the event queue of the
\* session whenever the queue has room.
C24_RetiredReportIsInjected ==
    [][/\ ReportForRetired => (ruw'.pc = "try" /\ ruw'.to = 1)
       /\ ReportSendStep =>
             event_q'[ruw.to].items = Append(event_q[ruw.to].items, ruw.ev)]_vars

----------------------------------------------------------------------------
\* A peer that never answers, under fair scheduling: a client session with
\* no age limit, a Reader that waits for a frame which never comes, the
\* Event Loop, a Writer whose writes succeed, and a clock each tick of which
\* is followed by a routine sweep, without end.  The program reads a time
\* stamp in its difference to the clock or to another stamp and in the test
\* against 0 only, so the clock is held where it is and a tick moves every
\* stamp that is set back by the period; a stamp stops at 1, more seconds
\* back than any limit the program compares with.

InitSilent == InitWith(Calls(0, 0, 0, 0, 0), FALSE)

Aged(t) == IF t = 0 THEN 0 ELSE IF t > SweepPeriod THEN t - SweepPeriod ELSE 1

\* The tasks of s have handled all there is and wait.
AtRest(s) ==
    /\ pcE[s] = "recv" /\ event_q[s].items = <<>>
    /\ pcW[s] = "recv" /\ send_q[s].items = <<>> /\ vbuf[s] = <<>>

\* The timer of the sweeps: a tick when the sweep of the tick before has run
\* and its events are handled (the period is long against the steps of the
\* tasks), and with the tick a sweep falls due.
SilentTick ==
    /\ phase[1] = "running" /\ pcS = "idle" /\ budget.sweeps = 0 /\ AtRest(1)
    /\ state' = [s \in Sessions |->
                    [last_ping_send_time |-> Aged(state[s].last_ping_send_time),
                     last_pong_recv_time |-> Aged(state[s].last_pong_recv_time),
                     born_time |-> Aged(state[s].born_time),
                     io_active_unix_secs |-> Aged(state[s].io_active_unix_secs),
                     retired |-> state[s].retired,
                     closed |-> state[s].closed]]
    /\ budget' = [budget EXCEPT !.sweeps = 1]
    /\ UNCHANGED <<regVars, sessVars, queueVars, loopVars, readerVars, writerVars,
                   sweepVars, cs, ruw, now, afterClosed, aging>>
SilentSweep == SweepLock

NextSilent ==
    \/ StartSession(1, "a", 0)
    \/ ReaderTop(1)
    \/ ELoopTop(1) \/ ELoopRecv(1) \/ ELoopSend(1)
    \/ WriterTop(1) \/ WriterRecv(1)
    \/ WriterWrite(1, VLen(vbuf[1]))
    \/ SilentTick
    \/ SilentSweep \/ SweepSend \/ SweepDone

FairSilent ==
    /\ WF_vars(StartSession(1, "a", 0)) /\ WF_vars(ReaderTop(1))
    /\ WF_vars(ELoopTop(1)) /\ WF_vars(ELoopRecv(1)) /\ WF_vars(ELoopSend(1))
    /\ WF_vars(WriterTop(1)) /\ WF_vars(WriterRecv(1))
    /\ WF_vars(WriterWrite(1, VLen(vbuf[1])))
    /\ WF_vars(SilentTick) /\ WF_vars(SilentSweep)
    /\ WF_vars(SweepSend) /\ WF_vars(SweepDone)

SpecSilent == InitSilent /\ [][NextSilent]_vars /\ FairSilent

\* C25: under fair scheduling with a sweep at every tick, a client session
\* whose PINGs are written and which never receives a PONG is retired or
\* closed in the end, by the heartbeat check or by the idle check.
C25_SilentPeerIsDetected ==
    \A s \in Sessions :
        (phase[s] = "running") ~> (state[s].retired \/ state[s].closed)

----------------------------------------------------------------------------
\* create_stream beside a session that shuts down: a client session whose
\* Reader fails, its three tasks up to the erase, and the callers of
\* create_stream.

InitLost == InitWith(Calls(0, 0, MaxCreate, 0, 0), FALSE)

NextLost ==
    \/ StartSession(1, "a", 0)
    \/ ReaderTop(1) \/ ReaderFail(1) \/ ReaderShutdown(1) \/ ReaderEmpty(1)
    \/ ELoopTop(1) \/ ELoopRecv(1) \/ ELoopSend(1) \/ ELoopLast(1)
    \/ WriterTop(1) \/ WriterRecv(1) \/ WriterShutdown(1)
    \/ WriterWrite(1, VLen(vbuf[1]))
    \/ JoinErase(1)
    \/ \E c \in Callers : CreateLock(c, "a")
    \/ \E c \in Callers : CreateSend(c)

SpecLost == InitLost /\ [][NextLost]_vars

\* create_stream of caller c returns Ok(stream).
ReturnsOk(c) == cs[c].pc = "send" /\ cs'[c].pc = "idle" /\ cs'[c].ret = "ok"

\* C26: whenever create_stream returns a stream, the SYN of the stream has
\* been taken into the event queue of the session it picked; a session whose
\* Event Loop has closed its queue and which is still in a slot yields no Ok
\* stream whose SYN was lost.
C26_OkStreamHasItsSynQueued ==
    [][\A c \in Callers :
          ReturnsOk(c) =>
              event_q'[cs[c].sid].items = Append(event_q[cs[c].sid].items, cs[c].ev)]_vars

====
